---------------------------- MODULE Spec2Model ----------------------------
(***************************************************************************)
(* The SX1268 radio driver of blue-high: the transport layer               *)
(* (src/src/sx1268_hal.rs), the command driver (src/src/sx1268_driver.rs)  *)
(* and the configuration encodings (src/src/lora_config.rs).               *)
(*                                                                         *)
(* Three specifications share the variables:                               *)
(*   Spec     the driver: init and transmit, one action per transport call,*)
(*            against a chip with one scratch register, with injected bus  *)
(*            failures;                                                    *)
(*   SpecEnc  init alone, over a wide set of configurations, on a healthy  *)
(*            bus (the encodings of the configuration fields);             *)
(*   SpecHal  the transport layer: wait_on_busy poll by poll, write and    *)
(*            read byte by byte, the antenna switch pin write by pin write;*)
(*            FairSpecHal adds the progress of the single thread.          *)
(*                                                                         *)
(* TLC's integers are 32 bits wide; every value here stays below 2^31.     *)
(***************************************************************************)
EXTENDS Integers, Sequences, FiniteSets, TLC

(***************************************************************************)
(* Bounds of the model.                                                    *)
(***************************************************************************)
\* payloads of every length 0..MaxLen are sent (besides the edge lengths)
MaxLen == 2
\* transport-level calls shift commands of 1..MaxCmdLen bytes
MaxCmdLen == 4
\* and carry 0..MaxDataLen data (write) or response (read) bytes
MaxDataLen == 2

(***************************************************************************)
(* Program constants.                                                      *)
(***************************************************************************)
SET_STANDBY == 128
SET_TX == 131
SET_REGULATOR_MODE == 150
CALIBRATE == 137
SET_PA_CONFIG == 149
SET_RX_TX_FALLBACK_MODE == 147
WRITE_REGISTER == 13
READ_REGISTER == 29
WRITE_BUFFER == 14
READ_BUFFER == 30
SET_DIO_IRQ_PARAMS == 8
CLR_IRQ_STATUS == 2
SET_DIO2_AS_RF_SWITCH_CTRL == 157
SET_DIO3_AS_TCXO_CTRL == 151
SET_RF_FREQUENCY == 134
SET_PACKET_TYPE == 138
SET_TX_PARAMS == 142
SET_MODULATION_PARAMS == 139
SET_PACKET_PARAMS == 140
GET_DEVICE_ERRORS == 23
CLR_DEVICE_ERRORS == 7
GET_STATUS == 192
SET_BUFFER_BASE_ADDRESS == 143

MAX_BUSY_WAIT_ITERATIONS == 10000
TX_COMPLETION_DELAY_MS == 100
FXTAL == 32000000
FREQ_STEP_BITS == 25
XOSC_START_ERR == 64
BUFFER_SIZE == 64

\* spi_test: test_value 0xA5 written to test_addr 0x0920
TestValue == 165
TestAddr == 2336
\* set_lora_sync_word: register 0x0740
SyncWordAddr == 1856
\* transmit: timeout 0x002710
TxTimeout == 10000
\* set_lora_packet_params: payload_len = 255u8
InitPayloadLen == 255

(***************************************************************************)
(* Bytes.                                                                  *)
(***************************************************************************)
\* u16::to_be_bytes
BE2(x) == << (x \div 256) % 256, x % 256 >>

\* (x as u32).to_be_bytes(): the four low bytes of x
BE4(x) == << (x \div 16777216) % 256, (x \div 65536) % 256,
             (x \div 256) % 256, x % 256 >>

\* [(t >> 16) as u8, (t >> 8) as u8, t as u8]
BE3(x) == << (x \div 65536) % 256, (x \div 256) % 256, x % 256 >>

\* i8 as u8
\* a conversion that saturates at zero
I8AsU8Saturating(x) == IF x < 0 THEN 0 ELSE x

I8AsU8(x) == (x + 256) % 256

\* a conversion that saturates at 255
AsU8Saturating(x) == IF x > 255 THEN 255 ELSE x

\* usize as u8
AsU8(x) == x % 256

BoolByte(b) == IF b THEN 1 ELSE 0

(***************************************************************************)
(* lora_config.rs                                                          *)
(***************************************************************************)
Frequencies == {410, 433, 441, 470, 490, 510}
TxPowers == {10, 15, 18, 21, 24, 27, 30}
Bandwidths == {125, 250, 500}
SpreadingFactors == 7..12
CodingRates == 5..8

\* Frequency::to_hz: (*self as u32) * 1_000_000; at most 510_000_000 < 2^32
ToHz(f) == f * 1000000

\* TxPower::get_chip_power
GetChipPower(p) ==
  CASE p = 10 -> -5
    [] p = 15 -> 1
    [] p = 18 -> 4
    [] p = 21 -> 7
    [] p = 24 -> 10
    [] p = 27 -> 15
    [] p = 30 -> 20

\* Bandwidth::to_sx126x_value
BwToSx126x(bw) ==
  CASE bw = 125 -> 4
    [] bw = 250 -> 5
    [] bw = 500 -> 6

\* a coding-rate code counted from zero
CrToSx126xFromZero(cr) == cr - 5

\* CodingRate::to_sx126x_value: (*self as u8) - 4
CrToSx126x(cr) == cr - 4

\* PaConfig::default
PaConfigDefault ==
  [pa_duty_cycle |-> 4, hp_max |-> 7, device_sel |-> 0, pa_lut |-> 1]

\* LoRaConfig::default
ConfigDefault ==
  [frequency |-> 433, tx_power |-> 30, bandwidth |-> 500,
   spreading_factor |-> 11, coding_rate |-> 5, preamble_length |-> 8,
   crc_enabled |-> TRUE, explicit_header |-> TRUE, sync_word |-> 20,
   pa_config |-> PaConfigDefault]

\* LoRaConfig::long_range
ConfigLongRange ==
  [frequency |-> 433, tx_power |-> 30, bandwidth |-> 125,
   spreading_factor |-> 12, coding_rate |-> 8, preamble_length |-> 12,
   crc_enabled |-> TRUE, explicit_header |-> TRUE, sync_word |-> 20,
   pa_config |-> PaConfigDefault]

\* LoRaConfig::fast_mode
ConfigFastMode ==
  [frequency |-> 433, tx_power |-> 27, bandwidth |-> 500,
   spreading_factor |-> 7, coding_rate |-> 5, preamble_length |-> 6,
   crc_enabled |-> TRUE, explicit_header |-> TRUE, sync_word |-> 20,
   pa_config |-> PaConfigDefault]

\* LoRaConfig::low_power
ConfigLowPower ==
  [frequency |-> 433, tx_power |-> 10, bandwidth |-> 125,
   spreading_factor |-> 9, coding_rate |-> 7, preamble_length |-> 8,
   crc_enabled |-> TRUE, explicit_header |-> TRUE, sync_word |-> 20,
   pa_config |-> PaConfigDefault]

\* the commented USER_CONFIG example of lora_config.rs, with header and CRC
\* flipped: a configuration whose cached fields all differ from new()'s
ConfigCustom ==
  [frequency |-> 470, tx_power |-> 27, bandwidth |-> 250,
   spreading_factor |-> 10, coding_rate |-> 7, preamble_length |-> 300,
   crc_enabled |-> FALSE, explicit_header |-> FALSE, sync_word |-> 18,
   pa_config |-> PaConfigDefault]

Presets == {ConfigDefault, ConfigLongRange, ConfigFastMode, ConfigLowPower}

\* every LoRaConfig the struct can hold, one group of fields varied at a time
FreqConfigs == {[ConfigDefault EXCEPT !.frequency = f] : f \in Frequencies}
PowerConfigs == {[ConfigDefault EXCEPT !.tx_power = p] : p \in TxPowers}
ModConfigs ==
  {[ConfigDefault EXCEPT !.spreading_factor = sf, !.bandwidth = bw,
                         !.coding_rate = cr] :
     sf \in SpreadingFactors, bw \in Bandwidths, cr \in CodingRates}
PreambleLengths == {0, 5, 6, 8, 12, 255, 256, 300, 65535}
PacketConfigs ==
  {[ConfigDefault EXCEPT !.preamble_length = n, !.crc_enabled = c,
                         !.explicit_header = h] :
     n \in PreambleLengths, c \in BOOLEAN, h \in BOOLEAN}
PaConfigs ==
  {[ConfigDefault EXCEPT !.pa_config.pa_duty_cycle = d, !.pa_config.hp_max = m,
                         !.sync_word = s] :
     d \in {4, 7, 8, 255}, m \in {0, 7, 8}, s \in {18, 20}}

WideConfigs ==
  Presets \cup {ConfigCustom} \cup FreqConfigs \cup PowerConfigs
    \cup ModConfigs \cup PacketConfigs \cup PaConfigs

\* the configurations the driver runs against a faulty bus
DriverConfigs == Presets \cup {ConfigCustom} \cup FreqConfigs

(***************************************************************************)
(* sx1268_driver.rs: the command frames.  Each builder gives the command   *)
(* bytes and the data bytes its function hands to hal.write or hal.read.   *)
(***************************************************************************)
Frame(c, d) == [cmd |-> c, data |-> d]

SetStandbyCmd(mode) == Frame(<<SET_STANDBY, mode>>, <<>>)

SetRegulatorModeCmd(mode) == Frame(<<SET_REGULATOR_MODE, mode>>, <<>>)

SetDio2AsRfSwitchCmd(enable) ==
  Frame(<<SET_DIO2_AS_RF_SWITCH_CTRL, BoolByte(enable)>>, <<>>)

SetDio3AsTcxoCmd(voltage, timeout) ==
  Frame(<<SET_DIO3_AS_TCXO_CTRL>>,
        <<voltage, BE2(timeout)[1], BE2(timeout)[2], 0>>)

CalibrateCmd(param) == Frame(<<CALIBRATE, param>>, <<>>)

SetBufferBaseAddressCmd(tx_base, rx_base) ==
  Frame(<<SET_BUFFER_BASE_ADDRESS, tx_base, rx_base>>, <<>>)

SetPacketTypeCmd(pkt_type) == Frame(<<SET_PACKET_TYPE, pkt_type>>, <<>>)

\* q*2^k + floor(r*2^k / d) with 0 <= r < d, one bit at a time: the exact
\* quotient of a product too wide for TLC's integers
RECURSIVE ShlDiv(_, _, _, _)
ShlDiv(q, r, k, d) ==
  IF k = 0 THEN q
  ELSE ShlDiv(2 * q + (IF 2 * r >= d THEN 1 ELSE 0), (2 * r) % d, k - 1, d)

\* ((freq_hz as u64) * FREQ_STEP / FXTAL): freq_hz < 2^32, so the u64 product
\* (below 2^57) does not wrap and the quotient is the exact floor
FreqReg64(freq_hz) ==
  ShlDiv(freq_hz \div FXTAL, freq_hz % FXTAL, FREQ_STEP_BITS, FXTAL)

\* the same product taken in u32: freq_hz * 2^25 wraps to (freq_hz mod 2^7) * 2^25,
\* and x * 2^25 / 32_000_000 = x * 2^20 / 1_000_000
FreqReg32(freq_hz) == ((freq_hz % 128) * 1048576) \div 1000000

FreqReg(freq_hz) == FreqReg64(freq_hz)

SetRfFrequencyCmd(freq_hz) ==
  Frame(<<SET_RF_FREQUENCY>>, BE4(FreqReg(freq_hz)))

SetPaConfigCmd(duty_cycle, hp_max, device_sel, pa_lut) ==
  Frame(<<SET_PA_CONFIG>>, <<duty_cycle, hp_max, device_sel, pa_lut>>)

SetTxParamsCmd(power, ramp_time) ==
  Frame(<<SET_TX_PARAMS>>, <<power, ramp_time>>)

SetRxTxFallbackModeCmd(mode) ==
  Frame(<<SET_RX_TX_FALLBACK_MODE, mode>>, <<>>)

LdroSf12Only(sf) == IF sf >= 12 THEN 1 ELSE 0

\* if sf >= 11 { 0x01 } else { 0x00 }
Ldro(sf) == IF sf >= 11 THEN 1 ELSE 0

SetLoraModParamsCmd(config) ==
  Frame(<<SET_MODULATION_PARAMS>>,
        <<config.spreading_factor, BwToSx126x(config.bandwidth),
          CrToSx126x(config.coding_rate), Ldro(config.spreading_factor)>>)

\* the fields set_lora_packet_params saves in the driver
CacheOf(config) ==
  [preamble_length |-> config.preamble_length,
   header_type |-> IF config.explicit_header THEN 0 ELSE 1,
   crc_enabled |-> config.crc_enabled,
   invert_iq |-> FALSE]

\* Sx1268Driver::new
CacheNew ==
  [preamble_length |-> 8, header_type |-> 0, crc_enabled |-> TRUE,
   invert_iq |-> FALSE]

\* packet parameters whose payload-length byte is left at zero
SetLoraPacketParamsCmdZeroLength(config) ==
  Frame(<<SET_PACKET_PARAMS>>,
        <<BE2(config.preamble_length)[1], BE2(config.preamble_length)[2],
          IF config.explicit_header THEN 0 ELSE 1, 0,
          BoolByte(config.crc_enabled), 0>>)

SetLoraPacketParamsCmd(config) ==
  Frame(<<SET_PACKET_PARAMS>>,
        <<BE2(config.preamble_length)[1], BE2(config.preamble_length)[2],
          IF config.explicit_header THEN 0 ELSE 1, InitPayloadLen,
          BoolByte(config.crc_enabled), 0>>)

UpdatePacketLengthCmdNew(c, payload_len) ==
  Frame(<<SET_PACKET_PARAMS>>,
        <<BE2(CacheNew.preamble_length)[1], BE2(CacheNew.preamble_length)[2],
          CacheNew.header_type, payload_len,
          BoolByte(CacheNew.crc_enabled), BoolByte(CacheNew.invert_iq)>>)

\* update_packet_length, from the driver's saved fields c
UpdatePacketLengthCmd(c, payload_len) ==
  Frame(<<SET_PACKET_PARAMS>>,
        <<BE2(c.preamble_length)[1], BE2(c.preamble_length)[2],
          c.header_type, payload_len,
          BoolByte(c.crc_enabled), BoolByte(c.invert_iq)>>)

SetLoraSyncWordCmd(sync_word) ==
  Frame(<<WRITE_REGISTER, BE2(SyncWordAddr)[1], BE2(SyncWordAddr)[2]>>,
        <<sync_word>>)

WriteBufferCmdTruncated(offset, data) ==
  Frame(<<WRITE_BUFFER, offset>>,
        IF Len(data) = 0 THEN data ELSE SubSeq(data, 1, Len(data) - 1))

WriteBufferCmd(offset, data) == Frame(<<WRITE_BUFFER, offset>>, data)

SetDioIrqParamsCmd(irq_mask, dio1_mask, dio2_mask, dio3_mask) ==
  Frame(<<SET_DIO_IRQ_PARAMS>>,
        BE2(irq_mask) \o BE2(dio1_mask) \o BE2(dio2_mask) \o BE2(dio3_mask))

ClearIrqStatusCmd(irq_mask) ==
  Frame(<<CLR_IRQ_STATUS, BE2(irq_mask)[1], BE2(irq_mask)[2]>>, <<>>)

SetTxCmd(timeout) == Frame(<<SET_TX>>, BE3(timeout))

\* get_status: cmd [GET_STATUS, 0x00], response of 1 byte
GetStatusCmd == Frame(<<GET_STATUS, 0>>, <<>>)

\* get_device_errors: cmd [GET_DEVICE_ERRORS, 0x00, 0x00], response of 2 bytes
GetDeviceErrorsCmd == Frame(<<GET_DEVICE_ERRORS, 0, 0>>, <<>>)

ClearDeviceErrorsCmd == Frame(<<CLR_DEVICE_ERRORS, 0, 0>>, <<>>)

\* spi_test: cmd_read_orig and cmd_write
ReadRegisterCmd(addr) ==
  Frame(<<READ_REGISTER, BE2(addr)[1], BE2(addr)[2], 0>>, <<>>)

WriteRegisterCmd(addr, value) ==
  Frame(<<WRITE_REGISTER, BE2(addr)[1], BE2(addr)[2]>>, <<value>>)

\* a check that takes any device error for an oscillator failure
XoscFailedAnyError(errors) == errors # 0

\* check_xosc_start: (errors & XOSC_START_ERR) != 0
XoscFailed(errors) == (errors \div XOSC_START_ERR) % 2 = 1

(***************************************************************************)
(* sx1268_hal.rs: the pin writes of the reset, the wakeup and the antenna  *)
(* switch, in program order.  A pin write is <<pin, level>>; a delay is    *)
(* <<"delay", ms>>.                                                        *)
(***************************************************************************)
ResetOpsNoPulse ==
  << <<"nrst", 1>>, <<"delay", 10>>, <<"nrst", 1>>, <<"delay", 10>> >>

\* a reset that holds the line low for one delay unit only
ResetOpsShortHold ==
  << <<"nrst", 0>>, <<"delay", 1>>, <<"nrst", 1>>, <<"delay", 10>> >>

ResetOps ==
  << <<"nrst", 0>>, <<"delay", 10>>, <<"nrst", 1>>, <<"delay", 10>> >>

WakeupOps ==
  << <<"nss", 0>>, <<"delay", 1>>, <<"nss", 1>>, <<"delay", 1>> >>

RfSwitchTxOpsSwapped == << <<"txen", 1>>, <<"rxen", 0>> >>

RfSwitchTxOps == << <<"rxen", 0>>, <<"txen", 1>> >>

RfSwitchRxOps == << <<"txen", 0>>, <<"rxen", 1>> >>

RfSwitchOffOps == << <<"txen", 0>>, <<"rxen", 0>> >>

(***************************************************************************)
(* State.                                                                  *)
(***************************************************************************)
VARIABLES
  \* the environment, fixed by Init
  config,      \* the LoRaConfig handed to init
  chip,        \* [resetValue, writable]: the scratch register of the chip
  faulty,      \* whether SPI byte transfers may fail
  pinFaulty,   \* whether writes of the reset and chip-select pins may fail
  \* the driver (Sx1268Driver) and its caller
  pc,          \* the statement the driver is at; "idle" between calls
  op,          \* "none", "init" or "transmit"
  payload,     \* transmit's data
  result,      \* "none", "Ok" or "Err": what the call returned
  trace,       \* what the current call has done so far, in order
  lastInit,    \* the transactions issued by the latest init that returned Ok
  cache,       \* preamble_length, header_type, crc_enabled, invert_iq
  orig_value,  \* spi_test's locals
  read_data,
  sub,         \* the next pin write of the antenna switch operation under way
  \* the lines
  nss, nrst, txen, rxen,
  \* the chip
  chipReg,     \* the value of register 0x0920
  accepted,    \* the packet-parameter fields the chip has been sent successfully
  \* the transport layer (Sx1268Context), call by call
  hpc,         \* "idle", "poll", "check", "select", "cmd", "data", "release", "rf", "ret"
  hcall,       \* the call under way: [kind, cmd, data, n]
  timeout,     \* wait_on_busy's local
  polls,       \* how often this wait_on_busy has read the busy line
  lastBusy,    \* what the latest is_high().unwrap_or(false) gave: "high" or "low"
  warned,      \* whether this call logged the BUSY timeout warning
  wire,        \* the bytes this call has shifted: <<sent, nss level>>
  hstatus,     \* what the call returned
  hresp,       \* read's data buffer
  \* the firmware's main
  mpc,         \* the statement main is at; "off" when the driver's caller is
               \* not main
  usb_buf,     \* the chunk buffer of the bridge loop
  count,       \* what the latest serial.read gave: Ok(count), 0 for none
  txCalls      \* how often transmit has been called since the latest poll

envVars == <<config, chip, faulty, pinFaulty>>
pinVars == <<nss, nrst, txen, rxen>>
chipVars == <<chipReg, accepted>>
locals == <<orig_value, read_data, sub>>
drvVars == <<pc, op, payload, result, trace, lastInit, cache, locals>>
halVars ==
  <<hpc, hcall, timeout, polls, lastBusy, warned, wire, hstatus, hresp>>
mainVars == <<mpc, usb_buf, count, txCalls>>
vars == <<envVars, drvVars, pinVars, chipVars, halVars, mainVars>>

(***************************************************************************)
(* The inputs.                                                             *)
(***************************************************************************)
\* a payload of L bytes, all different from their neighbours
Pattern(L, seed) == [i \in 1..L |-> (seed + i - 1) % 256]

Seeds == {1, 254}
\* main's chunk size, the largest length a u8 holds, and the first it does not
EdgeLens == {BUFFER_SIZE, 255, 256}
Payloads ==
  {Pattern(L, s) : L \in 0..MaxLen, s \in Seeds}
    \cup {Pattern(L, 1) : L \in EdgeLens}

\* 2^k
RECURSIVE Pow2(_)
Pow2(k) == IF k = 0 THEN 1 ELSE 2 * Pow2(k - 1)

\* device-error words.  Against a bus that may fail: none, XOSC_START alone,
\* another bit alone, all but XOSC_START, all.  Against a healthy bus, where
\* the placements of failures do not multiply them: also every single bit,
\* every single bit with XOSC_START, and all bits but one, with and without
\* XOSC_START
ErrWords ==
  {0, 64, 32, 65471, 65535}
    \cup (IF faulty THEN {}
          ELSE {Pow2(k) : k \in 0..15}
                 \cup {65535 - Pow2(k) : k \in 0..15}
                 \cup {w \in {64 + Pow2(k) : k \in 0..15} : w # 128}
                 \cup {w \in {65471 - Pow2(k) : k \in 0..15} : w # 65407})
\* status bytes.  Against a bus that may fail: TX/success, STBY_RC/success,
\* TX/command failure.  Against a healthy bus: every operating mode (bits 6:4)
\* with command status success, every command status (bits 3:1) with mode TX,
\* and the bytes 0x00 and 0xFF, neither TX nor success
StatusBytes ==
  {98, 34, 108}
    \cup (IF faulty THEN {}
          ELSE {mode * 16 + 2 : mode \in 0..7}
                 \cup {96 + status * 2 : status \in 0..7}
                 \cup {0, 255})
\* what the scratch register holds after a reset
ResetValues == {0, TestValue}

BusOutcomes == IF faulty THEN {TRUE, FALSE} ELSE {TRUE}

\* the result of set_low or set_high of the OutputPin the context is generic
\* over; the GPIO pins main builds the context from cannot fail
PinOutcomes == IF pinFaulty THEN {TRUE, FALSE} ELSE {TRUE}

(***************************************************************************)
(* The trace of a call.                                                    *)
(***************************************************************************)
BusEv(step, k, f, n, ok, resp) ==
  [step |-> step, k |-> k, cmd |-> f.cmd, data |-> f.data, n |-> n,
   ok |-> ok, resp |-> resp]

\* a pin write <<pin, level>> or a delay <<"delay", ms>>
OpEv(step, o) ==
  [step |-> step, k |-> o[1], cmd |-> <<>>, data |-> <<>>, n |-> o[2],
   ok |-> TRUE, resp |-> <<>>]

\* a defmt::error! line
LogEv(step) ==
  [step |-> step, k |-> "log.error", cmd |-> <<>>, data |-> <<>>, n |-> 0,
   ok |-> TRUE, resp |-> <<>>]

\* the events of a pin sequence; oks[i] is the result of the i-th pin write
OpEvs(step, ops, oks) ==
  [i \in 1..Len(ops) |-> [OpEv(step, ops[i]) EXCEPT !.ok = oks[i]]]

\* the results a pin sequence can have: a delay does not fail
OpResults(ops) ==
  {oks \in [1..Len(ops) -> BOOLEAN] :
     \A i \in 1..Len(ops) :
       oks[i] \in (IF ops[i][1] = "delay" THEN {TRUE} ELSE PinOutcomes)}

\* the pin writes of a sequence that took effect: a failed write leaves its
\* line as it was
Applied(ops, oks) ==
  [i \in 1..Len(ops) |-> IF oks[i] THEN ops[i] ELSE <<"delay", 0>>]

IsBus(e) == e.k \in {"write", "read"}

\* the level pin has after ops, old if they do not write it
LevelAfter(ops, pin, old) ==
  LET I == {i \in 1..Len(ops) : ops[i][1] = pin}
  IN IF I = {} THEN old
     ELSE ops[CHOOSE i \in I : \A j \in I : j <= i][2]

\* the chip is reset while its reset line is low
Resets(ops) == \E i \in 1..Len(ops) : ops[i] = <<"nrst", 0>>

\* the transactions of a trace as issued: kind, command bytes, data bytes and
\* response length
RECURSIVE Issued(_)
Issued(t) ==
  IF t = <<>> THEN <<>>
  ELSE (IF IsBus(Head(t))
        THEN << <<Head(t).k, Head(t).cmd, Head(t).data, Head(t).n>> >>
        ELSE <<>>) \o Issued(Tail(t))

(***************************************************************************)
(* Init.  Both antenna lines, chip-select and reset start low (main's      *)
(* into_push_pull_output), the driver holds new()'s fields and the chip's  *)
(* register its reset value.                                               *)
(***************************************************************************)
HalIdle ==
  /\ hpc = "idle"
  /\ hcall = [kind |-> "none", cmd |-> <<>>, data |-> <<>>, n |-> 0]
  /\ timeout = 0
  /\ polls = 0
  /\ lastBusy = "low"
  /\ warned = FALSE
  /\ wire = <<>>
  /\ hstatus = "none"
  /\ hresp = <<>>

DriverNew ==
  /\ pc = "idle"
  /\ op = "none"
  /\ payload = <<>>
  /\ result = "none"
  /\ trace = <<>>
  /\ lastInit = <<>>
  /\ cache = CacheNew
  /\ orig_value = 0
  /\ read_data = 0
  /\ sub = 0
  /\ nss = 0
  /\ nrst = 0
  /\ txen = 0
  /\ rxen = 0
  /\ chipReg = chip.resetValue
  /\ accepted = {}

\* main is not part of the run: the driver's caller calls init and transmit in
\* any order
MainOff ==
  /\ mpc = "off"
  /\ usb_buf = <<>>
  /\ count = 0
  /\ txCalls = 0

Init ==
  /\ config \in DriverConfigs
  /\ chip \in [resetValue : ResetValues, writable : BOOLEAN]
  /\ faulty \in BOOLEAN
  /\ pinFaulty = FALSE
  /\ DriverNew
  /\ HalIdle
  /\ MainOff

InitEnc ==
  /\ config \in WideConfigs
  /\ chip = [resetValue |-> 0, writable |-> TRUE]
  /\ faulty = FALSE
  /\ pinFaulty = FALSE
  /\ DriverNew
  /\ HalIdle
  /\ MainOff

(***************************************************************************)
(* The driver's steps.  A step is one call of the transport layer; the `?` *)
(* after it returns Err from init or transmit when the call gave Error.    *)
(***************************************************************************)
\* hal.write(f.cmd, f.data) by `step`, at statement `here`; on Ok the driver
\* goes on to `next` (returning Ok when that is "ret"), on Error it returns
\* Err.  hal.write leaves chip-select high.
WriteStep(here, step, f, next) ==
  /\ pc = here
  /\ \E ok \in BusOutcomes :
       /\ trace' = Append(trace, BusEv(step, "write", f, 0, ok, <<>>))
       /\ pc' = IF ok THEN next ELSE "ret"
       /\ result' = IF ~ok THEN "Err" ELSE IF next = "ret" THEN "Ok" ELSE result
  /\ nss' = 1
  /\ UNCHANGED <<envVars, mainVars, halVars, op, payload, lastInit, cache, locals,
                 nrst, txen, rxen, chipVars>>

\* a whole pin sequence of the transport layer (reset, wakeup), whose status
\* the driver does not look at
OpsStep(here, step, ops, next) ==
  /\ pc = here
  /\ \E oks \in OpResults(ops) :
       LET done == Applied(ops, oks)
       IN /\ trace' = trace \o OpEvs(step, ops, oks)
          /\ nss' = LevelAfter(done, "nss", nss)
          /\ nrst' = LevelAfter(done, "nrst", nrst)
          /\ txen' = LevelAfter(done, "txen", txen)
          /\ rxen' = LevelAfter(done, "rxen", rxen)
          /\ chipReg' = IF Resets(done) THEN chip.resetValue ELSE chipReg
  /\ pc' = next
  /\ UNCHANGED <<envVars, mainVars, halVars, op, payload, result, lastInit, cache,
                 locals, accepted>>

\* one pin write of an antenna switch operation; after the last one the
\* operation returns Ok and the driver goes on to `next`
SwitchStep(here, step, ops, next) ==
  /\ pc = here
  /\ sub < Len(ops)
  /\ LET o == ops[sub + 1]
     IN /\ trace' = Append(trace, OpEv(step, o))
        /\ txen' = IF o[1] = "txen" THEN o[2] ELSE txen
        /\ rxen' = IF o[1] = "rxen" THEN o[2] ELSE rxen
  /\ IF sub + 1 = Len(ops)
     THEN /\ sub' = 0
          /\ pc' = next
          /\ result' = IF next = "ret" THEN "Ok" ELSE result
     ELSE /\ sub' = sub + 1
          /\ UNCHANGED <<pc, result>>
  /\ UNCHANGED <<envVars, mainVars, halVars, op, payload, lastInit, cache, orig_value,
                 read_data, nss, nrst, chipVars>>

------------------------------------------------------------------------------
(* Sx1268Driver::init *)

InitCall ==
  /\ pc = "idle"
  /\ pc' = "i_reset"
  /\ op' = "init"
  /\ result' = "none"
  /\ trace' = <<>>
  /\ UNCHANGED <<envVars, mainVars, halVars, payload, lastInit, cache, locals, pinVars,
                 chipVars>>

I_Reset == OpsStep("i_reset", "reset", ResetOps, "i_wakeup")

I_Wakeup == OpsStep("i_wakeup", "wakeup", WakeupOps, "i_clear")

I_ClearDeviceErrors ==
  WriteStep("i_clear", "clear_device_errors", ClearDeviceErrorsCmd, "i_standby")

I_SetStandby ==
  WriteStep("i_standby", "set_standby", SetStandbyCmd(0), "i_test_read_orig")

\* spi_test: read the register's value into orig_value
I_SpiTestReadOrig ==
  /\ pc = "i_test_read_orig"
  /\ \E ok \in BusOutcomes :
       /\ trace' = Append(trace,
                     BusEv("spi_test.read_orig", "read", ReadRegisterCmd(TestAddr),
                           1, ok, IF ok THEN <<chipReg>> ELSE <<>>))
       /\ pc' = IF ok THEN "i_test_write" ELSE "ret"
       /\ result' = IF ok THEN result ELSE "Err"
       /\ orig_value' = IF ok THEN chipReg ELSE 0
  /\ nss' = 1
  /\ UNCHANGED <<envVars, mainVars, halVars, op, payload, lastInit, cache, read_data,
                 sub, nrst, txen, rxen, chipVars>>

\* spi_test: write test_value
I_SpiTestWrite ==
  /\ pc = "i_test_write"
  /\ \E ok \in BusOutcomes :
       /\ trace' = Append(trace,
                     BusEv("spi_test.write", "write",
                           WriteRegisterCmd(TestAddr, TestValue), 0, ok, <<>>))
       /\ pc' = IF ok THEN "i_test_read_back" ELSE "ret"
       /\ result' = IF ok THEN result ELSE "Err"
       /\ orig_value' = IF ok THEN orig_value ELSE 0
       /\ chipReg' = IF ok /\ chip.writable THEN TestValue ELSE chipReg
  /\ nss' = 1
  /\ UNCHANGED <<envVars, mainVars, halVars, op, payload, lastInit, cache, read_data,
                 sub, nrst, txen, rxen, accepted>>

\* spi_test: read the register back into read_data
I_SpiTestReadBack ==
  /\ pc = "i_test_read_back"
  /\ \E ok \in BusOutcomes :
       /\ trace' = Append(trace,
                     BusEv("spi_test.read_back", "read", ReadRegisterCmd(TestAddr),
                           1, ok, IF ok THEN <<chipReg>> ELSE <<>>))
       /\ pc' = IF ok THEN "i_test_restore" ELSE "ret"
       /\ result' = IF ok THEN result ELSE "Err"
       /\ read_data' = IF ok THEN chipReg ELSE 0
       /\ orig_value' = IF ok THEN orig_value ELSE 0
  /\ nss' = 1
  /\ UNCHANGED <<envVars, mainVars, halVars, op, payload, lastInit, cache, sub, nrst,
                 txen, rxen, chipVars>>

\* a restore after which a mismatch is returned as Err without the error line
I_SpiTestRestoreSilent ==
  /\ pc = "i_test_restore"
  /\ \E ok \in BusOutcomes :
       /\ trace' = Append(trace,
                     BusEv("spi_test.restore", "write",
                           WriteRegisterCmd(TestAddr, orig_value), 0, ok, <<>>))
       /\ chipReg' = IF ok /\ chip.writable THEN orig_value ELSE chipReg
  /\ pc' = IF read_data = TestValue THEN "i_regulator" ELSE "ret"
  /\ result' = IF read_data = TestValue THEN result ELSE "Err"
  /\ orig_value' = 0
  /\ read_data' = 0
  /\ nss' = 1
  /\ UNCHANGED <<envVars, mainVars, halVars, op, payload, lastInit, cache, sub, nrst,
                 txen, rxen, accepted>>

\* spi_test: write orig_value back, whatever the write's status, and compare
\* read_data with test_value
I_SpiTestRestore ==
  /\ pc = "i_test_restore"
  /\ \E ok \in BusOutcomes :
       /\ trace' = Append(trace,
                     BusEv("spi_test.restore", "write",
                           WriteRegisterCmd(TestAddr, orig_value), 0, ok, <<>>))
                     \o (IF read_data = TestValue THEN <<>>
                         ELSE <<LogEv("spi_test")>>)
       /\ chipReg' = IF ok /\ chip.writable THEN orig_value ELSE chipReg
  /\ pc' = IF read_data = TestValue THEN "i_regulator" ELSE "ret"
  /\ result' = IF read_data = TestValue THEN result ELSE "Err"
  /\ orig_value' = 0
  /\ read_data' = 0
  /\ nss' = 1
  /\ UNCHANGED <<envVars, mainVars, halVars, op, payload, lastInit, cache, sub, nrst,
                 txen, rxen, accepted>>

I_SetRegulatorMode ==
  WriteStep("i_regulator", "set_regulator_mode", SetRegulatorModeCmd(1), "i_dio2")

I_SetDio2AsRfSwitch ==
  WriteStep("i_dio2", "set_dio2_as_rf_switch", SetDio2AsRfSwitchCmd(FALSE),
            "i_tcxo")

I_SetDio3AsTcxo ==
  WriteStep("i_tcxo", "set_dio3_as_tcxo", SetDio3AsTcxoCmd(7, 320), "i_xosc")

\* check_xosc_start: get_device_errors, then the XOSC_START_ERR bit
I_CheckXoscStart ==
  /\ pc = "i_xosc"
  /\ \/ /\ FALSE \in BusOutcomes
        /\ trace' = Append(trace,
                      BusEv("get_device_errors", "read", GetDeviceErrorsCmd, 2,
                            FALSE, <<>>))
        /\ pc' = "ret"
        /\ result' = "Err"
     \/ \E w \in ErrWords :
          LET response == BE2(w)
              errors == response[1] * 256 + response[2]
          IN /\ trace' = Append(trace,
                           BusEv("get_device_errors", "read", GetDeviceErrorsCmd,
                                 2, TRUE, response))
             /\ pc' = IF XoscFailed(errors) THEN "ret" ELSE "i_bufbase"
             /\ result' = IF XoscFailed(errors) THEN "Err" ELSE result
  /\ nss' = 1
  /\ UNCHANGED <<envVars, mainVars, halVars, op, payload, lastInit, cache, locals, nrst,
                 txen, rxen, chipVars>>

\* a set_buffer_base_address after which init goes on without calibrating
I_SetBufferBaseAddressThenPacketType ==
  WriteStep("i_bufbase", "set_buffer_base_address",
            SetBufferBaseAddressCmd(0, 0), "i_pkt_type")

I_SetBufferBaseAddress ==
  WriteStep("i_bufbase", "set_buffer_base_address",
            SetBufferBaseAddressCmd(0, 0), "i_calibrate")

\* a calibrate whose status init does not look at
I_CalibrateUnchecked ==
  /\ pc = "i_calibrate"
  /\ \E ok \in BusOutcomes :
       trace' = Append(trace, BusEv("calibrate", "write", CalibrateCmd(127),
                                    0, ok, <<>>))
  /\ pc' = "i_pkt_type"
  /\ nss' = 1
  /\ UNCHANGED <<envVars, mainVars, halVars, op, payload, result, lastInit, cache,
                 locals, nrst, txen, rxen, chipVars>>

I_Calibrate == WriteStep("i_calibrate", "calibrate", CalibrateCmd(127), "i_pkt_type")

I_SetPacketType ==
  WriteStep("i_pkt_type", "set_packet_type", SetPacketTypeCmd(1), "i_freq")

I_SetRfFrequency ==
  WriteStep("i_freq", "set_rf_frequency",
            SetRfFrequencyCmd(ToHz(config.frequency)), "i_pa")

I_SetPaConfig ==
  WriteStep("i_pa", "set_pa_config",
            SetPaConfigCmd(config.pa_config.pa_duty_cycle, config.pa_config.hp_max,
                           config.pa_config.device_sel, config.pa_config.pa_lut),
            "i_tx_params")

I_SetTxParams ==
  WriteStep("i_tx_params", "set_tx_params",
            SetTxParamsCmd(I8AsU8(GetChipPower(config.tx_power)), 4), "i_fallback")

I_SetRxTxFallbackMode ==
  WriteStep("i_fallback", "set_rx_tx_fallback_mode", SetRxTxFallbackModeCmd(64),
            "i_mod")

I_SetLoraModParams ==
  WriteStep("i_mod", "set_lora_mod_params", SetLoraModParamsCmd(config), "i_pkt")

\* a set_lora_packet_params that saves the fields only when its write gave Ok
I_SetLoraPacketParamsSaveOnOk ==
  /\ pc = "i_pkt"
  /\ \E ok \in BusOutcomes :
       /\ trace' = Append(trace,
                     BusEv("set_lora_packet_params", "write",
                           SetLoraPacketParamsCmd(config), 0, ok, <<>>))
       /\ pc' = IF ok THEN "i_sync" ELSE "ret"
       /\ result' = IF ok THEN result ELSE "Err"
       /\ accepted' = IF ok THEN accepted \cup {CacheOf(config)} ELSE accepted
       /\ cache' = IF ok THEN CacheOf(config) ELSE cache
  /\ nss' = 1
  /\ UNCHANGED <<envVars, mainVars, halVars, op, payload, lastInit, locals, nrst, txen,
                 rxen, chipReg>>

\* set_lora_packet_params: the fields are saved before the command is written
I_SetLoraPacketParams ==
  /\ pc = "i_pkt"
  /\ cache' = CacheOf(config)
  /\ \E ok \in BusOutcomes :
       /\ trace' = Append(trace,
                     BusEv("set_lora_packet_params", "write",
                           SetLoraPacketParamsCmd(config), 0, ok, <<>>))
       /\ pc' = IF ok THEN "i_sync" ELSE "ret"
       /\ result' = IF ok THEN result ELSE "Err"
       /\ accepted' = IF ok THEN accepted \cup {CacheOf(config)} ELSE accepted
  /\ nss' = 1
  /\ UNCHANGED <<envVars, mainVars, halVars, op, payload, lastInit, locals, nrst, txen,
                 rxen, chipReg>>

I_SetLoraSyncWord ==
  WriteStep("i_sync", "set_lora_sync_word", SetLoraSyncWordCmd(config.sync_word),
            "ret")

------------------------------------------------------------------------------
(* Sx1268Driver::transmit *)

TransmitCall ==
  /\ pc = "idle"
  /\ \E p \in Payloads : payload' = p
  /\ pc' = "t_standby"
  /\ op' = "transmit"
  /\ result' = "none"
  /\ trace' = <<>>
  /\ UNCHANGED <<envVars, mainVars, halVars, lastInit, cache, locals, pinVars, chipVars>>

T_SetStandby == WriteStep("t_standby", "set_standby", SetStandbyCmd(0), "t_buffer")

T_WriteBuffer ==
  WriteStep("t_buffer", "write_buffer", WriteBufferCmd(0, payload), "t_length")

\* update_packet_length(len as u8)
T_UpdatePacketLength ==
  /\ pc = "t_length"
  /\ \E ok \in BusOutcomes :
       /\ trace' = Append(trace,
                     BusEv("update_packet_length", "write",
                           UpdatePacketLengthCmd(cache, AsU8(Len(payload))),
                           0, ok, <<>>))
       /\ pc' = IF ok THEN "t_irq" ELSE "ret"
       /\ result' = IF ok THEN result ELSE "Err"
       /\ accepted' = IF ok THEN accepted \cup {cache} ELSE accepted
  /\ nss' = 1
  /\ UNCHANGED <<envVars, mainVars, halVars, op, payload, lastInit, cache, locals, nrst,
                 txen, rxen, chipReg>>

T_SetDioIrqParams ==
  WriteStep("t_irq", "set_dio_irq_params", SetDioIrqParamsCmd(1, 1, 0, 0),
            "t_clear_irq")

\* a clear_irq_status whose status transmit does not look at
T_ClearIrqStatusUnchecked ==
  /\ pc = "t_clear_irq"
  /\ \E ok \in BusOutcomes :
       trace' = Append(trace, BusEv("clear_irq_status", "write",
                                    ClearIrqStatusCmd(65535), 0, ok, <<>>))
  /\ pc' = "t_rf_tx"
  /\ nss' = 1
  /\ UNCHANGED <<envVars, mainVars, halVars, op, payload, result, lastInit,
                 cache, locals, nrst, txen, rxen, chipVars>>

\* a transmit that starts the transmission without switching the antenna
T_ClearIrqStatusThenSetTx ==
  WriteStep("t_clear_irq", "clear_irq_status", ClearIrqStatusCmd(65535), "t_set_tx")

T_ClearIrqStatus ==
  WriteStep("t_clear_irq", "clear_irq_status", ClearIrqStatusCmd(65535), "t_rf_tx")

T_RfSwitchTx == SwitchStep("t_rf_tx", "rf_switch_tx", RfSwitchTxOps, "t_set_tx")

T_SetTx == WriteStep("t_set_tx", "set_tx", SetTxCmd(TxTimeout), "t_status")

\* a get_status that lowers TXEN when its read fails
T_GetStatusReleasing ==
  /\ pc = "t_status"
  /\ \/ /\ FALSE \in BusOutcomes
        /\ trace' = Append(trace,
                      BusEv("get_status", "read", GetStatusCmd, 1, FALSE, <<>>))
        /\ txen' = 0
     \/ \E st \in StatusBytes :
          /\ trace' = Append(trace,
                        BusEv("get_status", "read", GetStatusCmd, 1, TRUE, <<st>>))
          /\ txen' = txen
  /\ pc' = "t_delay"
  /\ nss' = 1
  /\ UNCHANGED <<envVars, mainVars, halVars, op, payload, result, lastInit,
                 cache, locals, nrst, rxen, chipVars>>

\* a status check after which transmit returns Err when the read failed or
\* the chip is not in TX mode with command status success
T_GetStatusChecked ==
  /\ pc = "t_status"
  /\ \/ /\ FALSE \in BusOutcomes
        /\ trace' = Append(trace,
                      BusEv("get_status", "read", GetStatusCmd, 1, FALSE, <<>>))
        /\ pc' = "ret"
        /\ result' = "Err"
     \/ \E st \in StatusBytes :
          /\ trace' = Append(trace,
                        BusEv("get_status", "read", GetStatusCmd, 1, TRUE, <<st>>))
          /\ pc' = IF (st \div 16) % 8 = 6 /\ (st \div 2) % 8 = 1
                    THEN "t_delay" ELSE "ret"
          /\ result' = IF (st \div 16) % 8 = 6 /\ (st \div 2) % 8 = 1
                        THEN result ELSE "Err"
  /\ nss' = 1
  /\ UNCHANGED <<envVars, mainVars, halVars, op, payload, lastInit, cache,
                 locals, nrst, txen, rxen, chipVars>>

\* if let Ok(status) = self.get_status() { log }: the outcome is not used
T_GetStatus ==
  /\ pc = "t_status"
  /\ \/ /\ FALSE \in BusOutcomes
        /\ trace' = Append(trace,
                      BusEv("get_status", "read", GetStatusCmd, 1, FALSE, <<>>))
     \/ \E st \in StatusBytes :
          trace' = Append(trace,
                     BusEv("get_status", "read", GetStatusCmd, 1, TRUE, <<st>>))
  /\ pc' = "t_delay"
  /\ nss' = 1
  /\ UNCHANGED <<envVars, mainVars, halVars, op, payload, result, lastInit, cache,
                 locals, nrst, txen, rxen, chipVars>>

T_Delay ==
  /\ pc = "t_delay"
  /\ trace' = Append(trace, OpEv("transmit", <<"delay", TX_COMPLETION_DELAY_MS>>))
  /\ pc' = "t_rf_off"
  /\ UNCHANGED <<envVars, mainVars, halVars, op, payload, result, lastInit, cache,
                 locals, pinVars, chipVars>>

T_RfSwitchOff == SwitchStep("t_rf_off", "rf_switch_off", RfSwitchOffOps, "ret")

------------------------------------------------------------------------------
\* the caller takes the result; the call's trace ends with the call
Return ==
  /\ pc = "ret"
  /\ pc' = "idle"
  /\ op' = "none"
  /\ result' = "none"
  /\ payload' = <<>>
  /\ trace' = <<>>
  /\ lastInit' = IF op = "init" /\ result = "Ok" THEN Issued(trace) ELSE lastInit
  /\ UNCHANGED <<envVars, mainVars, halVars, cache, locals, pinVars, chipVars>>

NextEnc ==
  \/ InitCall
  \/ I_Reset
  \/ I_Wakeup
  \/ I_ClearDeviceErrors
  \/ I_SetStandby
  \/ I_SpiTestReadOrig
  \/ I_SpiTestWrite
  \/ I_SpiTestReadBack
  \/ I_SpiTestRestore
  \/ I_SetRegulatorMode
  \/ I_SetDio2AsRfSwitch
  \/ I_SetDio3AsTcxo
  \/ I_CheckXoscStart
  \/ I_SetBufferBaseAddress
  \/ I_Calibrate
  \/ I_SetPacketType
  \/ I_SetRfFrequency
  \/ I_SetPaConfig
  \/ I_SetTxParams
  \/ I_SetRxTxFallbackMode
  \/ I_SetLoraModParams
  \/ I_SetLoraPacketParams
  \/ I_SetLoraSyncWord
  \/ Return

Next ==
  \/ NextEnc
  \/ TransmitCall
  \/ T_SetStandby
  \/ T_WriteBuffer
  \/ T_UpdatePacketLength
  \/ T_SetDioIrqParams
  \/ T_ClearIrqStatus
  \/ T_RfSwitchTx
  \/ T_SetTx
  \/ T_GetStatus
  \/ T_Delay
  \/ T_RfSwitchOff

Spec == Init /\ [][Next]_vars

SpecEnc == InitEnc /\ [][NextEnc]_vars

\* init on a context built from pins whose writes may fail
InitPins ==
  /\ config \in Presets
  /\ chip \in [resetValue : ResetValues, writable : BOOLEAN]
  /\ faulty = FALSE
  /\ pinFaulty = TRUE
  /\ DriverNew
  /\ HalIdle
  /\ MainOff

SpecPins == InitPins /\ [][NextEnc]_vars

(***************************************************************************)
(* The transport layer, Sx1268Context, one action per statement.           *)
(***************************************************************************)
\* what a read of the busy line gives: is_high() may fail, and
\* unwrap_or(false) then takes the line as low
BusyReads == {"low", "high", "err"}

\* bytes the chip puts on the wire
MisoBytes == {162, 92}

\* the command and data slices handed to write and read: commands of
\* 1..MaxCmdLen bytes, with 0..MaxDataLen bytes of data (write) or of response
\* buffer (read)
HalArgs(kind) ==
  IF kind = "write"
  THEN {[cmd |-> Pattern(c, 13), data |-> Pattern(d, 165), n |-> 0] :
          c \in 1..MaxCmdLen, d \in 0..MaxDataLen}
  ELSE {[cmd |-> Pattern(c, 29), data |-> <<>>, n |-> d] :
          c \in 1..MaxCmdLen, d \in 0..MaxDataLen}

HalKinds ==
  {"wait_on_busy", "write", "read", "rf_switch_tx", "rf_switch_rx",
   "rf_switch_off"}

InitHal ==
  /\ config = ConfigDefault
  /\ chip = [resetValue |-> 0, writable |-> TRUE]
  /\ faulty = TRUE
  /\ pinFaulty = FALSE
  /\ DriverNew
  /\ HalIdle
  /\ MainOff

\* self.busy.is_high().unwrap_or(false)
IsHigh(b) == IF b = "high" THEN "high" ELSE "low"

BusyLoopNoCeiling(b, t) == b = "high"

\* while self.busy.is_high().unwrap_or(false) && timeout > 0
BusyLoopContinues(b, t) == b = "high" /\ t > 0

SwitchOps(kind) ==
  CASE kind = "rf_switch_tx" -> RfSwitchTxOps
    [] kind = "rf_switch_rx" -> RfSwitchRxOps
    [] kind = "rf_switch_off" -> RfSwitchOffOps

\* a call of wait_on_busy, write, read or an antenna switch operation.  write
\* and read first wait; their slices are first read after the wait, and the
\* model draws them there (HalSelect)
HalCall ==
  /\ hpc = "idle"
  /\ \E k \in HalKinds :
       /\ hcall' = [kind |-> k, cmd |-> <<>>, data |-> <<>>, n |-> 0]
       /\ IF k \in {"wait_on_busy", "write", "read"}
          THEN /\ hpc' = "poll"
               /\ timeout' = MAX_BUSY_WAIT_ITERATIONS
          ELSE /\ hpc' = "rf"
               /\ timeout' = 0
  /\ polls' = 0
  /\ lastBusy' = "low"
  /\ warned' = FALSE
  /\ wire' = <<>>
  /\ hstatus' = "none"
  /\ hresp' = <<>>
  /\ UNCHANGED <<envVars, mainVars, drvVars, pinVars, chipVars>>

\* wait_on_busy: one evaluation of the loop condition, and the body if it holds
HalPoll ==
  /\ hpc = "poll"
  /\ \E b \in BusyReads :
       /\ lastBusy' = IsHigh(b)
       /\ polls' = polls + 1
       /\ IF BusyLoopContinues(IsHigh(b), timeout)
          THEN /\ timeout' = timeout - 1
               /\ hpc' = "poll"
          ELSE /\ timeout' = timeout
               /\ hpc' = "check"
  /\ UNCHANGED <<envVars, mainVars, drvVars, pinVars, chipVars, hcall, warned, wire,
                 hstatus, hresp>>

\* a wait_on_busy whose exhausted ceiling makes write and read return Error
HalCheckTimeoutFatal ==
  /\ hpc = "check"
  /\ warned' = (timeout = 0)
  /\ timeout' = 0
  /\ polls' = 0
  /\ IF hcall.kind = "wait_on_busy"
     THEN hpc' = "ret" /\ hstatus' = "unit"
     ELSE IF timeout = 0
          THEN hpc' = "ret" /\ hstatus' = "Error"
          ELSE hpc' = "select" /\ hstatus' = hstatus
  /\ UNCHANGED <<envVars, mainVars, drvVars, pinVars, chipVars, hcall, lastBusy,
                 wire, hresp>>

\* a wait_on_busy that warns only if its last poll read the line high
HalCheckWarnIfBusy ==
  /\ hpc = "check"
  /\ warned' = (timeout = 0 /\ lastBusy = "high")
  /\ timeout' = 0
  /\ polls' = 0
  /\ IF hcall.kind = "wait_on_busy"
     THEN hpc' = "ret" /\ hstatus' = "unit"
     ELSE hpc' = "select" /\ hstatus' = hstatus
  /\ UNCHANGED <<envVars, mainVars, drvVars, pinVars, chipVars, hcall, lastBusy, wire,
                 hresp>>

\* wait_on_busy: if timeout == 0 { warn }, and the return
HalCheck ==
  /\ hpc = "check"
  /\ warned' = (timeout = 0)
  /\ timeout' = 0
  /\ polls' = 0
  /\ IF hcall.kind = "wait_on_busy"
     THEN hpc' = "ret" /\ hstatus' = "unit"
     ELSE hpc' = "select" /\ hstatus' = hstatus
  /\ UNCHANGED <<envVars, mainVars, drvVars, pinVars, chipVars, hcall, lastBusy, wire,
                 hresp>>

\* write, read: let _ = self.nss.set_low()
HalSelect ==
  /\ hpc = "select"
  /\ \E a \in HalArgs(hcall.kind) :
       /\ hcall' = [kind |-> hcall.kind, cmd |-> a.cmd, data |-> a.data, n |-> a.n]
       /\ hresp' = [i \in 1..a.n |-> 0]
  /\ nss' = 0
  /\ hpc' = "cmd"
  /\ UNCHANGED <<envVars, mainVars, drvVars, nrst, txen, rxen, chipVars, timeout, polls,
                 lastBusy, warned, wire, hstatus>>

\* a transfer whose failure returns Error with chip-select left low
TransferLeavingSelected(b, ok, rx) ==
  /\ wire' = Append(wire, [sent |-> b, nss |-> nss, ok |-> ok, rx |-> rx])
  /\ IF ok
     THEN UNCHANGED <<nss, hstatus>>
     ELSE nss' = nss /\ hstatus' = "Error"

\* the transfer of one byte b: it fails (chip-select is raised and the call
\* returns Error) or it gives the byte rx received
Transfer(b, ok, rx) ==
  /\ wire' = Append(wire, [sent |-> b, nss |-> nss, ok |-> ok, rx |-> rx])
  /\ IF ok
     THEN UNCHANGED <<nss, hstatus>>
     ELSE nss' = 1 /\ hstatus' = "Error"

\* a read that keeps the byte received with the first command byte
HalShiftCmdFirstByte ==
  /\ hpc = "cmd"
  /\ Len(wire) < Len(hcall.cmd)
  /\ LET i == Len(wire) + 1
     IN \E ok \in BOOLEAN, rx \in MisoBytes :
          /\ Transfer(hcall.cmd[i], ok, rx)
          /\ hresp' = IF ok /\ hcall.kind = "read" /\ i = 1 /\ hcall.n > 0
                      THEN [hresp EXCEPT ![1] = rx]
                      ELSE hresp
          /\ hpc' = IF ~ok THEN "ret"
                    ELSE IF i = Len(hcall.cmd) THEN "data" ELSE "cmd"
  /\ UNCHANGED <<envVars, mainVars, drvVars, nrst, txen, rxen, chipVars, hcall, timeout,
                 polls, lastBusy, warned>>

\* write, read: the loop over command; read keeps the byte received with the
\* last command byte in data[0]
HalShiftCmd ==
  /\ hpc = "cmd"
  /\ Len(wire) < Len(hcall.cmd)
  /\ LET i == Len(wire) + 1
     IN \E ok \in BOOLEAN, rx \in MisoBytes :
          /\ Transfer(hcall.cmd[i], ok, rx)
          /\ hresp' = IF ok /\ hcall.kind = "read" /\ i = Len(hcall.cmd)
                         /\ hcall.n > 0
                      THEN [hresp EXCEPT ![1] = rx]
                      ELSE hresp
          /\ hpc' = IF ~ok THEN "ret"
                    ELSE IF i = Len(hcall.cmd) THEN "data" ELSE "cmd"
  /\ UNCHANGED <<envVars, mainVars, drvVars, nrst, txen, rxen, chipVars, hcall, timeout,
                 polls, lastBusy, warned>>

\* write: the loop over data; read: the loop over data.iter_mut().skip(1)
HalShiftData ==
  /\ hpc = "data"
  /\ LET done == Len(wire) - Len(hcall.cmd)
         more == IF hcall.kind = "write" THEN done < Len(hcall.data)
                 ELSE done + 1 < hcall.n
     IN IF more
        THEN \E ok \in BOOLEAN, rx \in MisoBytes :
               /\ Transfer(IF hcall.kind = "write" THEN hcall.data[done + 1] ELSE 0,
                           ok, rx)
               /\ hresp' = IF ok /\ hcall.kind = "read"
                           THEN [hresp EXCEPT ![done + 2] = rx]
                           ELSE hresp
               /\ hpc' = IF ok THEN "data" ELSE "ret"
        ELSE \* let _ = self.nss.set_high(); Sx1268HalStatus::Ok
             /\ nss' = 1
             /\ hstatus' = "Ok"
             /\ hpc' = "ret"
             /\ UNCHANGED <<wire, hresp>>
  /\ UNCHANGED <<envVars, mainVars, drvVars, nrst, txen, rxen, chipVars, hcall, timeout,
                 polls, lastBusy, warned>>

\* rf_switch_tx, rf_switch_rx, rf_switch_off: one pin write
HalSwitch ==
  /\ hpc = "rf"
  /\ LET ops == SwitchOps(hcall.kind)
         o == ops[sub + 1]
     IN /\ txen' = IF o[1] = "txen" THEN o[2] ELSE txen
        /\ rxen' = IF o[1] = "rxen" THEN o[2] ELSE rxen
        /\ IF sub + 1 = Len(ops)
           THEN sub' = 0 /\ hpc' = "ret" /\ hstatus' = "Ok"
           ELSE sub' = sub + 1 /\ UNCHANGED <<hpc, hstatus>>
  /\ UNCHANGED <<envVars, mainVars, pc, op, payload, result, trace, lastInit, cache,
                 orig_value, read_data, nss, nrst, chipVars, hcall, timeout,
                 polls, lastBusy, warned, wire, hresp>>

\* the caller takes the status
HalReturn ==
  /\ hpc = "ret"
  /\ hpc' = "idle"
  /\ hcall' = [kind |-> "none", cmd |-> <<>>, data |-> <<>>, n |-> 0]
  /\ lastBusy' = "low"
  /\ warned' = FALSE
  /\ wire' = <<>>
  /\ hstatus' = "none"
  /\ hresp' = <<>>
  /\ UNCHANGED <<envVars, mainVars, drvVars, pinVars, chipVars, timeout, polls>>

\* the statements of a call under way
HalStep ==
  \/ HalPoll
  \/ HalCheck
  \/ HalSelect
  \/ HalShiftCmd
  \/ HalShiftData
  \/ HalSwitch

NextHal ==
  \/ HalCall
  \/ HalStep
  \/ HalReturn

SpecHal == InitHal /\ [][NextHal]_vars

\* one thread of control: a call under way takes its next step
FairSpecHal == SpecHal /\ WF_vars(HalStep)

(***************************************************************************)
(* main: init once, then the bridge loop.  main's locals stand still while *)
(* the driver runs a call, and the driver's steps are those of Spec.       *)
(* loop_counter is written and never read, and is left out.                *)
(***************************************************************************)
\* lora_config.rs: pub const CURRENT_CONFIG: LoRaConfig = LoRaConfig::default()
CURRENT_CONFIG == ConfigDefault

\* what serial.read(&mut usb_buf) gives: an error, or Ok(count) with the
\* count <= BUFFER_SIZE bytes it wrote to the head of the buffer
Chunks ==
  {Pattern(L, s) : L \in 0..MaxLen, s \in Seeds}
    \cup {Pattern(BUFFER_SIZE, s) : s \in Seeds}

\* whether the display took main's drawing: every draw and flush is unwrapped
DisplayOutcomes == BOOLEAN

\* transmit's argument taken as the whole buffer
ChunkWhole(buf, n) == buf

\* &usb_buf[0..count]
Chunk(buf, n) == SubSeq(buf, 1, n)

InitMain ==
  /\ config = CURRENT_CONFIG
  /\ chip \in [resetValue : ResetValues, writable : BOOLEAN]
  /\ faulty \in BOOLEAN
  /\ pinFaulty = FALSE
  /\ DriverNew
  /\ HalIdle
  /\ mpc = "boot"
  /\ usb_buf = [i \in 1..BUFFER_SIZE |-> 0]
  /\ count = 0
  /\ txCalls = 0

\* the driver hands its result to main
Returned ==
  /\ pc = "ret"
  /\ pc' = "idle"
  /\ op' = "none"
  /\ result' = "none"
  /\ payload' = <<>>
  /\ trace' = <<>>
  /\ lastInit' = IF op = "init" /\ result = "Ok" THEN Issued(trace) ELSE lastInit
  /\ UNCHANGED <<envVars, halVars, cache, locals, pinVars, chipVars>>

\* sx1268.init(&lora_cfg, &mut delay_fn)
M_Init ==
  /\ mpc = "boot"
  /\ pc = "idle"
  /\ mpc' = "init"
  /\ pc' = "i_reset"
  /\ op' = "init"
  /\ result' = "none"
  /\ trace' = <<>>
  /\ UNCHANGED <<envVars, halVars, payload, lastInit, cache, locals, pinVars,
                 chipVars, usb_buf, count, txCalls>>

\* match sx1268.init(..) { Ok(_) => log, Err(_) => log }, then the status
\* screen
M_InitDone ==
  /\ mpc = "init"
  /\ Returned
  /\ \E drawn \in DisplayOutcomes : mpc' = IF drawn THEN "loop" ELSE "halt"
  /\ UNCHANGED <<usb_buf, count, txCalls>>

\* loop { if !usb_dev.poll(..) { continue; } ..
M_Poll ==
  /\ mpc = "loop"
  /\ \E ready \in BOOLEAN : mpc' = IF ready THEN "read" ELSE "loop"
  /\ count' = 0
  /\ txCalls' = 0
  /\ UNCHANGED <<envVars, drvVars, pinVars, chipVars, halVars, usb_buf>>

\* match serial.read(&mut usb_buf) { Ok(count) if count > 0 => .., _ => {} }
M_Read ==
  /\ mpc = "read"
  /\ \/ /\ mpc' = "loop"
        /\ UNCHANGED <<usb_buf, count>>
     \/ \E c \in Chunks :
          /\ usb_buf' = [i \in 1..BUFFER_SIZE |->
                           IF i <= Len(c) THEN c[i] ELSE usb_buf[i]]
          /\ count' = Len(c)
          /\ mpc' = IF Len(c) > 0 THEN "send" ELSE "loop"
  /\ UNCHANGED <<envVars, drvVars, pinVars, chipVars, halVars, txCalls>>

\* sx1268.transmit(&usb_buf[0..count], &mut delay_fn)
M_Transmit ==
  /\ mpc = "send"
  /\ pc = "idle"
  /\ mpc' = "sending"
  /\ txCalls' = txCalls + 1
  /\ payload' = Chunk(usb_buf, count)
  /\ pc' = "t_standby"
  /\ op' = "transmit"
  /\ result' = "none"
  /\ trace' = <<>>
  /\ UNCHANGED <<envVars, halVars, lastInit, cache, locals, pinVars, chipVars,
                 usb_buf, count>>

\* match sx1268.transmit(..) { Ok(_) => screen, Err(_) => screen }
M_TransmitDone ==
  /\ mpc = "sending"
  /\ Returned
  /\ \E drawn \in DisplayOutcomes : mpc' = IF drawn THEN "loop" ELSE "halt"
  /\ UNCHANGED <<usb_buf, count, txCalls>>

NextMain ==
  \/ M_Init
  \/ I_Reset
  \/ I_Wakeup
  \/ I_ClearDeviceErrors
  \/ I_SetStandby
  \/ I_SpiTestReadOrig
  \/ I_SpiTestWrite
  \/ I_SpiTestReadBack
  \/ I_SpiTestRestore
  \/ I_SetRegulatorMode
  \/ I_SetDio2AsRfSwitch
  \/ I_SetDio3AsTcxo
  \/ I_CheckXoscStart
  \/ I_SetBufferBaseAddress
  \/ I_Calibrate
  \/ I_SetPacketType
  \/ I_SetRfFrequency
  \/ I_SetPaConfig
  \/ I_SetTxParams
  \/ I_SetRxTxFallbackMode
  \/ I_SetLoraModParams
  \/ I_SetLoraPacketParams
  \/ I_SetLoraSyncWord
  \/ M_InitDone
  \/ M_Poll
  \/ M_Read
  \/ M_Transmit
  \/ T_SetStandby
  \/ T_WriteBuffer
  \/ T_UpdatePacketLength
  \/ T_SetDioIrqParams
  \/ T_ClearIrqStatus
  \/ T_RfSwitchTx
  \/ T_SetTx
  \/ T_GetStatus
  \/ T_Delay
  \/ T_RfSwitchOff
  \/ M_TransmitDone

SpecMain == InitMain /\ [][NextMain]_vars

(***************************************************************************)
(* Claims.                                                                 *)
(***************************************************************************)
InitReturned == pc = "ret" /\ op = "init"
TransmitReturned == pc = "ret" /\ op = "transmit"

\* the places of the bus transactions of the trace whose opcode is opc
Opcode(opc) ==
  {i \in 1..Len(trace) : IsBus(trace[i]) /\ trace[i].cmd[1] = opc}

\* the places of the bus transactions of the trace that failed
Failed == {i \in 1..Len(trace) : IsBus(trace[i]) /\ ~trace[i].ok}

------------------------------------------------------------------------------
\* C1: TXEN and RXEN are never both high, in any state between or inside the
\* antenna switch operations rf_switch_tx, rf_switch_rx and rf_switch_off,
\* called in any order from both lines low.
C1_NeverBothHigh == ~(txen = 1 /\ rxen = 1)

\* rf_switch_tx between its two pin writes
C1_Witness ==
  hpc = "rf" /\ hcall.kind = "rf_switch_tx" /\ sub = 1 /\ txen = 0 /\ rxen = 0

------------------------------------------------------------------------------
\* C2: every return of transmit, with Ok or with Err, leaves both antenna
\* enable lines low.
C2_TransmitReturnsLinesLow == TransmitReturned => (txen = 0 /\ rxen = 0)

------------------------------------------------------------------------------
------------------------------------------------------------------------------
\* what an event is, without its data: a transaction's kind and command bytes
\* (opcode, register address, inline parameter), a pin's level, a delay's time
Shape(e) == IF IsBus(e) THEN <<e.k, e.cmd>> ELSE <<e.k, e.n>>

ExpectedInitShapes ==
  << <<"nrst", 0>>, <<"delay", 10>>, <<"nrst", 1>>, <<"delay", 10>>,
     <<"nss", 0>>, <<"delay", 1>>, <<"nss", 1>>, <<"delay", 1>>,
     <<"write", <<7, 0, 0>>>>,
     <<"write", <<128, 0>>>>,
     <<"read", <<29, 9, 32, 0>>>>,
     <<"write", <<13, 9, 32>>>>,
     <<"read", <<29, 9, 32, 0>>>>,
     <<"write", <<13, 9, 32>>>>,
     <<"write", <<150, 1>>>>,
     <<"write", <<157, 0>>>>,
     <<"write", <<151>>>>,
     <<"read", <<23, 0, 0>>>>,
     <<"write", <<143, 0, 0>>>>,
     <<"write", <<137, 127>>>>,
     <<"write", <<138, 1>>>>,
     <<"write", <<134>>>>,
     <<"write", <<149>>>>,
     <<"write", <<142>>>>,
     <<"write", <<147, 64>>>>,
     <<"write", <<139>>>>,
     <<"write", <<140>>>>,
     <<"write", <<13, 7, 64>>>> >>

\* every transaction succeeded, the self-test read the test value back and the
\* device errors read have the oscillator-failure bit (bit 6) clear
InitHealthy ==
  /\ Failed = {}
  /\ \E i \in 1..Len(trace) :
       trace[i].step = "spi_test.read_back" /\ trace[i].resp = <<165>>
  /\ \E i \in 1..Len(trace) :
       trace[i].step = "get_device_errors" /\ (trace[i].resp[2] \div 64) % 2 = 0

\* C4: an init whose transactions all succeed, whose self-test reads the test
\* value back and whose device errors have the oscillator bit clear returns Ok;
\* an init that returns Ok has done exactly the reset pulse, the wakeup toggle
\* and the 20 transactions of ExpectedInitShapes, in that order.
C4_InitSequence ==
  InitReturned =>
    /\ InitHealthy => result = "Ok"
    /\ result = "Ok" =>
         [i \in 1..Len(trace) |-> Shape(trace[i])] = ExpectedInitShapes

C4_Witness == InitReturned /\ InitHealthy /\ result = "Ok"

------------------------------------------------------------------------------
\* round(freq_hz * 2^25 / 32_000_000) for a frequency of f MHz: freq_hz is
\* f * 10^6 and 32_000_000 is 2^5 * 10^6, so the quotient is f * 2^20, a whole
\* number
ExpectedFreqReg(f) == f * 1048576

\* C5: an init that returns Ok has issued exactly one transaction with opcode
\* 0x86, a write whose 4 data bytes are the big-endian bytes of
\* round(freq_hz * 2^25 / 32_000_000), for each of the six frequencies.
C5_FrequencyWrittenOnce ==
  (InitReturned /\ result = "Ok") =>
    /\ Cardinality(Opcode(134)) = 1
    /\ \A i \in Opcode(134) :
         LET r == ExpectedFreqReg(config.frequency)
         IN /\ trace[i].k = "write"
            /\ trace[i].cmd = <<134>>
            /\ Len(trace[i].data) = 4
            /\ trace[i].data[1] * 16777216 + trace[i].data[2] * 65536
                 + trace[i].data[3] * 256 + trace[i].data[4] = r

\* init returned Ok for the highest frequency
C5_Witness ==
  InitReturned /\ result = "Ok" /\ config.frequency = 510 /\ Opcode(134) # {}

------------------------------------------------------------------------------
\* C6: an init that returns Ok after an earlier init returned Ok, with the same
\* configuration and any calls in between, has issued the same transactions as
\* the earlier one: kinds, command bytes and data bytes, the byte written back
\* by the self-test included.
C6_InitIdempotent ==
  (InitReturned /\ result = "Ok" /\ lastInit # <<>>) => Issued(trace) = lastInit

\* a second init returned Ok, with TXEN left high by a transmit that failed
C6_Witness ==
  InitReturned /\ result = "Ok" /\ lastInit # <<>> /\ txen = 1

------------------------------------------------------------------------------
\* C7: the fourth data byte of the set-modulation-params command (0x8B) is 1
\* for spreading factor 11 or 12 and 0 for 7..10, for every bandwidth and
\* coding rate.
C7_LdroFromSpreadingFactor ==
  \A i \in Opcode(139) :
    /\ config.spreading_factor \in {11, 12} => trace[i].data[4] = 1
    /\ config.spreading_factor \in {7, 8, 9, 10} => trace[i].data[4] = 0

\* init returned Ok for SF11 with a bandwidth and coding rate other than the
\* default's
C7_Witness ==
  /\ InitReturned
  /\ result = "Ok"
  /\ Opcode(139) # {}
  /\ config.spreading_factor = 11
  /\ config.bandwidth = 125
  /\ config.coding_rate = 8

------------------------------------------------------------------------------
\* C8: a transmit of L <= 255 bytes that returns Ok has issued exactly one
\* write-buffer command (0x0E), at offset 0 and carrying the L payload bytes in
\* order, and right after it exactly one packet-parameters command (0x8C)
\* whose payload-length byte is L.
C8_BufferAndLength ==
  (TransmitReturned /\ result = "Ok" /\ Len(payload) <= 255) =>
    /\ Cardinality(Opcode(14)) = 1
    /\ Cardinality(Opcode(140)) = 1
    /\ \A i \in Opcode(14) :
         /\ trace[i].k = "write"
         /\ trace[i].cmd = <<14, 0>>
         /\ trace[i].data = payload
         /\ Opcode(140) = {i + 1}
         /\ trace[i + 1].k = "write"
         /\ trace[i + 1].data[4] = Len(payload)

\* a transmit of 255 bytes returned Ok
C8_Witness == TransmitReturned /\ result = "Ok" /\ Len(payload) = 255

------------------------------------------------------------------------------
\* preamble length, header type, CRC flag and IQ-invert flag of the data bytes
\* of a packet-parameters command
PacketFields(d) == <<d[1], d[2], d[3], d[5], d[6]>>

\* the data of the packet-parameters command of the latest init that returned Ok
InitPacketData ==
  lastInit[CHOOSE i \in 1..Len(lastInit) : lastInit[i][2][1] = 140][3]

\* C9: once an init has returned Ok, every packet-parameters command of a
\* transmit carries the preamble length, header type, CRC flag and IQ-invert
\* flag that init sent, whatever earlier transmits did; no step of transmit
\* changes the cached fields.
C9_PacketFieldsStable ==
  /\ [](op = "transmit" /\ lastInit # <<>> =>
          \A i \in Opcode(140) :
            PacketFields(trace[i].data) = PacketFields(InitPacketData))
  /\ [][op = "transmit" => cache' = cache]_vars

\* a transmit after an Ok init and after a transmit that failed at set-TX
\* (TXEN still high) has sent its packet parameters, under a configuration
\* whose fields all differ from new()'s
C9_Witness ==
  /\ op = "transmit"
  /\ pc = "t_irq"
  /\ lastInit # <<>>
  /\ txen = 1
  /\ config = ConfigCustom
  /\ cache # CacheNew

------------------------------------------------------------------------------
\* C10 (as stated): with the busy line held high forever wait_on_busy returns
\* after at most 10000 polls of the line.
C10_AtMostCeilingPolls == polls <= 10000

\* C10 (amended): no wait_on_busy reads the busy line more than 10001 times
\* (10000 times with the loop body run, and once more to find the ceiling
\* exhausted), whatever the line does; every call of wait_on_busy, write and
\* read that has started returns.
C10_BusyWaitBounded ==
  /\ [](polls <= 10001)
  /\ [](hpc = "poll" => <>(hpc = "ret"))

\* a write has returned Ok after a wait that exhausted the ceiling
C10_Witness ==
  hpc = "ret" /\ hcall.kind = "write" /\ warned /\ hstatus = "Ok" /\ wire # <<>>

------------------------------------------------------------------------------
\* C11: a write or read that returns has asserted chip-select and shifted its
\* first byte, whether or not its busy-wait exhausted the ceiling, and it
\* returns Error exactly when a byte transfer failed and Ok exactly when none
\* did.
C11_StatusFromTransfersOnly ==
  (hpc = "ret" /\ hcall.kind \in {"write", "read"}) =>
    /\ wire # <<>>
    /\ wire[1].nss = 0
    /\ wire[1].sent = hcall.cmd[1]
    /\ (hstatus = "Error") = (\E i \in 1..Len(wire) : ~wire[i].ok)
    /\ (hstatus = "Ok") = (\A i \in 1..Len(wire) : wire[i].ok)

\* a read whose wait exhausted the ceiling with the line still high has
\* shifted all its bytes and returned Ok
C11_Witness ==
  /\ hpc = "ret"
  /\ hcall.kind = "read"
  /\ warned
  /\ lastBusy = "high"
  /\ hstatus = "Ok"
  /\ Len(wire) = Len(hcall.cmd) + hcall.n - 1
  /\ hcall.n = MaxDataLen

------------------------------------------------------------------------------
\* C12: a bus transaction of transmit's standby, write-buffer, packet-length
\* update, set-IRQ-params, clear-IRQ-status or set-TX that fails is the last
\* thing transmit does: transmit returns Err, the command was issued once, and
\* no completion delay has run.
C12_TransmitFailFast ==
  op = "transmit" =>
    \A i \in Failed :
      trace[i].step \in {"set_standby", "write_buffer", "update_packet_length",
                         "set_dio_irq_params", "clear_irq_status", "set_tx"} =>
        /\ i = Len(trace)
        /\ pc = "ret"
        /\ result = "Err"
        /\ \A j \in 1..Len(trace) :
             /\ trace[j].k # "delay"
             /\ trace[j].step = trace[i].step => j = i
             /\ trace[i].step # "set_tx" => trace[j].step # "set_tx"

\* transmit returned Err at a clear-IRQ-status that failed
C12_Witness ==
  /\ TransmitReturned
  /\ result = "Err"
  /\ trace[Len(trace)].step = "clear_irq_status"
  /\ ~trace[Len(trace)].ok

------------------------------------------------------------------------------
\* the places of the events of the trace done by `step`
StepAt(step) == {i \in 1..Len(trace) : trace[i].step = step}

\* C13: a transmit that has reached its status check goes on to return Ok
\* whatever the check gave: after the get-status read, failed or not and
\* whatever byte it read, transmit is at the completion delay, and when it
\* returns it has run the delay of 100 ms after the read, has lowered TXEN and
\* RXEN after the delay, and returns Ok.
C13_StatusCheckAdvisory ==
  op = "transmit" =>
    \A i \in StepAt("get_status") :
      /\ pc \in {"t_delay", "t_rf_off", "ret"}
      /\ i = Len(trace) => pc = "t_delay"
      /\ pc = "ret" =>
           /\ result = "Ok"
           /\ txen = 0 /\ rxen = 0
           /\ Len(trace) = i + 3
           /\ Shape(trace[i + 1]) = <<"delay", 100>>
           /\ Shape(trace[i + 2]) = <<"txen", 0>>
           /\ Shape(trace[i + 3]) = <<"rxen", 0>>

\* transmit returned Ok after a get-status read that failed
C13_Witness ==
  /\ TransmitReturned
  /\ result = "Ok"
  /\ \E i \in StepAt("get_status") : ~trace[i].ok

------------------------------------------------------------------------------
\* C14: when init has read the device-error word after the TCXO step, it
\* returns Err there, with nothing issued after the read, if bit 6 (0x0040) of
\* the word is set, and goes on to set the buffer base addresses if it is
\* clear, whatever the other 15 bits are.
C14_XoscBitDecides ==
  op = "init" =>
    \A i \in StepAt("get_device_errors") :
      trace[i].ok =>
        LET w == trace[i].resp[1] * 256 + trace[i].resp[2]
        IN IF (w \div 64) % 2 = 1
           THEN i = Len(trace) /\ pc = "ret" /\ result = "Err"
           ELSE IF i = Len(trace)
                THEN pc = "i_bufbase" /\ result = "none"
                ELSE trace[i + 1].step = "set_buffer_base_address"

\* init returned Ok after reading a device-error word with every bit set but
\* bit 6 (0xFFBF)
C14_Witness ==
  /\ InitReturned
  /\ result = "Ok"
  /\ \E i \in StepAt("get_device_errors") : trace[i].resp = <<255, 191>>

------------------------------------------------------------------------------
\* a LoRaConfig with a field outside its register's range: a preamble shorter
\* than 6 symbols, a PA duty cycle or hp_max above 0x07
OutOfRange(c) ==
  \/ c.preamble_length < 6
  \/ c.pa_config.pa_duty_cycle > 7
  \/ c.pa_config.hp_max > 7

\* C15: an init handed a LoRaConfig with an out-of-range field (preamble
\* length below 6, PA duty cycle or hp_max above 0x07) issues no bus
\* transaction and returns Err.
C15_RejectsOutOfRange ==
  (op = "init" /\ OutOfRange(config)) =>
    /\ \A i \in 1..Len(trace) : ~IsBus(trace[i])
    /\ pc = "ret" => result = "Err"

------------------------------------------------------------------------------
\* C16: the error value init returns identifies the stage that failed.  init's
\* error type has the one value Err(()); a value identifies a stage when every
\* init that returns it failed at that stage, so that the inits returning
\* Err(()) all failed where the first one that can fail does, at
\* clear_device_errors.
C16_ErrIdentifiesStage ==
  (InitReturned /\ result = "Err") =>
    trace[Len(trace)].step = "clear_device_errors"

------------------------------------------------------------------------------
\* both register reads of the self-test succeeded and the byte read back is
\* not the test value
SelfTestMismatch ==
  /\ \E i \in StepAt("spi_test.read_orig") : trace[i].ok
  /\ \E i \in StepAt("spi_test.read_back") :
       trace[i].ok /\ trace[i].resp # <<165>>

\* the self-test ended at a bus transaction that failed
SelfTestBusFailure ==
  \E i \in Failed :
    /\ i = Len(trace)
    /\ trace[i].step \in {"spi_test.read_orig", "spi_test.write",
                          "spi_test.read_back"}

\* the self-test's error line is in the log
SelfTestErrorLogged ==
  \E i \in StepAt("spi_test") : trace[i].k = "log.error"

\* C17: an init that returns after a self-test mismatch and an init that
\* returns after a bus failure in the self-test both return Err, and differ
\* in what they log: the mismatch has printed the self-test's error line, once,
\* as the last thing init did, and the bus failure has not.
C17_MismatchLoggedDistinctly ==
  InitReturned =>
    /\ SelfTestMismatch =>
         /\ result = "Err"
         /\ SelfTestErrorLogged
         /\ StepAt("spi_test") = {Len(trace)}
         /\ ~SelfTestBusFailure
    /\ SelfTestBusFailure => result = "Err" /\ ~SelfTestErrorLogged
    /\ SelfTestErrorLogged => SelfTestMismatch

\* init returned Err after a mismatch, the restore write having succeeded
C17_Witness ==
  /\ InitReturned
  /\ result = "Err"
  /\ SelfTestMismatch
  /\ Failed = {}

------------------------------------------------------------------------------
\* C18: main calls transmit only after an init has returned Ok; after an init
\* that returned Err no transmit is running.
C18_TransmitOnlyAfterInitOk == op = "transmit" => lastInit # <<>>

------------------------------------------------------------------------------
\* C19: in the bridge loop, the transmit call made for a poll carries exactly
\* the count > 0 bytes the poll's read put at the head of the buffer; when main
\* is back at the head of the loop, the call has returned and the latest poll
\* has made one transmit call if it read count > 0 bytes (count <= 64) and none
\* if it read nothing or failed.
C19_OneTransmitPerChunk ==
  /\ count <= 64
  /\ mpc \in {"sending", "send"} => count > 0
  /\ mpc = "sending" =>
       /\ txCalls = 1
       /\ op = "transmit"
       /\ payload = [i \in 1..count |-> usb_buf[i]]
  /\ mpc \in {"loop", "halt"} =>
       /\ pc = "idle"
       /\ txCalls = IF count > 0 THEN 1 ELSE 0
  /\ mpc = "read" => txCalls = 0 /\ pc = "idle"

\* the transmit of a chunk of 2 bytes, read after a chunk of 64 bytes that
\* left its tail in the buffer, has returned and main is back at the loop
C19_Witness ==
  /\ mpc = "loop"
  /\ count = 2
  /\ txCalls = 1
  /\ usb_buf[1] = 254
  /\ usb_buf[3] = 3

------------------------------------------------------------------------------
\* what a step of a diagnostics operation does
DiagnosticsStep ==
  pc \in {"i_clear", "i_xosc", "t_status"} =>
    /\ Len(trace') = Len(trace) + 1
    /\ SubSeq(trace', 1, Len(trace)) = trace
    /\ IsBus(trace'[Len(trace')])
    /\ trace'[Len(trace')].cmd[1] =
         (CASE pc = "i_clear" -> 7 [] pc = "i_xosc" -> 23 [] pc = "t_status" -> 192)
    /\ cache' = cache
    /\ txen' = txen
    /\ rxen' = rxen

\* C20: a step that runs clear_device_errors, get_device_errors or get_status
\* adds exactly one event to the call's trace, the bus transaction of its
\* opcode (0x07, 0x17, 0xC0), and leaves the cached packet-parameter fields,
\* TXEN and RXEN as they were, whether the transaction succeeds or fails.
C20_DiagnosticsFrame == [][DiagnosticsStep]_vars

\* get_status has failed in a transmit, with TXEN high and cached fields that
\* init has set
C20_Witness ==
  /\ pc = "t_delay"
  /\ trace[Len(trace)].step = "get_status"
  /\ ~trace[Len(trace)].ok
  /\ txen = 1
  /\ cache # CacheNew

------------------------------------------------------------------------------
\* C21: in a write or read, every byte transfer is made after the call's busy
\* wait and with chip-select low; a transfer that failed is the last of the
\* call; chip-select is high when the call returns, with Ok or with Error.
C21_TransfersInsideSelect ==
  hcall.kind \in {"write", "read"} =>
    /\ hpc \in {"poll", "check", "select"} => wire = <<>>
    /\ \A i \in 1..Len(wire) :
         /\ wire[i].nss = 0
         /\ ~wire[i].ok => i = Len(wire) /\ hpc = "ret" /\ hstatus = "Error"
    /\ hpc = "ret" => nss = 1

\* a read has returned Error at its second byte, with chip-select high
C21_Witness ==
  /\ hpc = "ret"
  /\ hcall.kind = "read"
  /\ hstatus = "Error"
  /\ Len(wire) = 2
  /\ nss = 1

------------------------------------------------------------------------------
\* the events of the reset as the caller sees them once reset has returned:
\* line low, a wait of at least 10 units, line high, a second wait; the line
\* is high and no later event of the call writes it
ResetPulseDone ==
  (op = "init" /\ pc \notin {"idle", "i_reset"}) =>
    /\ Len(trace) >= 4
    /\ trace[1].k = "nrst" /\ trace[1].n = 0
    /\ trace[2].k = "delay" /\ trace[2].n >= 10
    /\ trace[3].k = "nrst" /\ trace[3].n = 1
    /\ trace[4].k = "delay" /\ trace[4].n >= 1
    /\ \A i \in 1..4 : trace[i].step = "reset"
    /\ \A i \in 5..Len(trace) : trace[i].k # "nrst"
    /\ nrst = 1

\* no step other than the reset changes the level of the reset line
ResetLineOwned == pc # "i_reset" => nrst' = nrst

\* C22: reset drives the reset line low, waits at least 10 delay units, drives
\* it high and waits again before it returns; the line is high when reset has
\* returned, and no other operation of the driver changes it.
C22_ResetPulse == [](ResetPulseDone) /\ [][ResetLineOwned]_vars

\* the reset of a second init has just returned: the line went from high to
\* low and back, and the wakeup is next
C22_Witness ==
  /\ pc = "i_wakeup"
  /\ lastInit # <<>>
  /\ Len(trace) = 4
  /\ trace[1].k = "nrst" /\ trace[1].n = 0
  /\ nrst = 1

------------------------------------------------------------------------------
\* the events of a successful transmit, in order: standby (RC), write-buffer
\* at offset 0, packet parameters, set-IRQ-params, clear-IRQ-status with mask
\* 0xFFFF, RXEN low, TXEN high, set-TX, status read, completion delay, TXEN
\* low, RXEN low
TransmitOrder ==
  << <<"write", <<128, 0>>>>, <<"write", <<14, 0>>>>, <<"write", <<140>>>>,
     <<"write", <<8>>>>, <<"write", <<2, 255, 255>>>>,
     <<"rxen", 0>>, <<"txen", 1>>,
     <<"write", <<131>>>>, <<"read", <<192, 0>>>>,
     <<"delay", 100>>,
     <<"txen", 0>>, <<"rxen", 0>> >>

\* C23: a transmit that returns Ok has issued standby, write-buffer, the
\* packet-parameters update, set-IRQ-params arming TxDone (mask 0x0001),
\* clear-IRQ-status (mask 0xFFFF), the antenna switch to transmit, set-TX, the
\* status read, the completion delay and the antenna switch to off, in this
\* order; the antenna lines are in the transmit position from before set-TX
\* is shifted until the completion delay has elapsed.
C23_TransmitOrder ==
  /\ (TransmitReturned /\ result = "Ok") =>
       /\ [i \in 1..Len(trace) |-> Shape(trace[i])] = TransmitOrder
       /\ trace[4].data[1] = 0 /\ trace[4].data[2] = 1
  /\ (op = "transmit" /\ pc \in {"t_set_tx", "t_status", "t_delay"}) =>
       txen = 1 /\ rxen = 0

\* a transmit has returned Ok after a status read that gave a byte
C23_Witness ==
  /\ TransmitReturned
  /\ result = "Ok"
  /\ Len(trace) = 12
  /\ trace[9].ok
  /\ Len(payload) >= 1

------------------------------------------------------------------------------
\* the pin writes of reset and wakeup that failed in the current call
PinFailures ==
  {i \in 1..Len(trace) :
     trace[i].step \in {"reset", "wakeup"} /\ trace[i].k \in {"nrst", "nss"}
       /\ ~trace[i].ok}

\* C24: a pin write of the reset line that fails during reset, or of
\* chip-select during wakeup, is surfaced: init issues no bus transaction
\* after it and returns Err.
C24_PinFailureSurfaced ==
  \A i \in PinFailures :
    /\ \A j \in i + 1..Len(trace) : ~IsBus(trace[j])
    /\ InitReturned => result = "Err"

------------------------------------------------------------------------------
\* init's self-test has started and finished: init is past it, or has returned
SelfTestFinished ==
  /\ op = "init"
  /\ StepAt("spi_test.read_orig") # {}
  /\ pc \notin {"i_test_write", "i_test_read_back", "i_test_restore"}

\* C25: when the self-test of init has finished, with success or with an
\* error, register 0x0920 holds the value it held before the test: if the
\* test byte was written, the original value has been written back by a write
\* that succeeded.
C25_ScratchRestored ==
  SelfTestFinished =>
    /\ chipReg = chip.resetValue
    /\ (\E i \in StepAt("spi_test.write") : trace[i].ok) =>
         \E j \in StepAt("spi_test.restore") : trace[j].ok

------------------------------------------------------------------------------
\* the power byte of set-TX-params for each output level: the 8-bit two's
\* complement of -5, 1, 4, 7, 10, 15, 20 dBm
PowerByte(p) ==
  CASE p = 10 -> 251
    [] p = 15 -> 1
    [] p = 18 -> 4
    [] p = 21 -> 7
    [] p = 24 -> 10
    [] p = 27 -> 15
    [] p = 30 -> 20

\* C26: the set-TX-params command of init carries, for every TxPower level,
\* the 8-bit two's-complement encoding of the chip-stage dBm of the lookup
\* 10->-5, 15->1, 18->4, 21->7, 24->10, 27->15, 30->20 (0xFB for 10 dBm) and
\* the ramp byte 0x04; the lookup is strictly increasing.
C26_PowerByte ==
  /\ \A i \in Opcode(142) :
       trace[i].data = <<PowerByte(config.tx_power), 4>>
  /\ \A p, q \in TxPowers : p < q => GetChipPower(p) < GetChipPower(q)

\* init returned Ok for 10 dBm, the level whose chip-stage power is negative
C26_Witness ==
  /\ InitReturned
  /\ result = "Ok"
  /\ config.tx_power = 10
  /\ \E i \in Opcode(142) : trace[i].data[1] = 251

------------------------------------------------------------------------------
\* the bandwidth and coding-rate codes of the chip
BwCode(bw) == CASE bw = 125 -> 4 [] bw = 250 -> 5 [] bw = 500 -> 6
CrCode(cr) == CASE cr = 5 -> 1 [] cr = 6 -> 2 [] cr = 7 -> 3 [] cr = 8 -> 4

\* C27: the set-modulation-params command of init carries the 4 bytes
\* [SF, bandwidth code, coding-rate code, LDRO] with SF in 7..12, bandwidth
\* 125/250/500 kHz as 0x04/0x05/0x06 and coding rate 4/5..4/8 as 1..4; both
\* encodings are injective and the coding-rate subtraction does not underflow.
C27_ModulationBytes ==
  /\ \A i \in Opcode(139) :
       /\ Len(trace[i].data) = 4
       /\ trace[i].data[1] = config.spreading_factor
       /\ trace[i].data[1] \in 7..12
       /\ trace[i].data[2] = BwCode(config.bandwidth)
       /\ trace[i].data[3] = CrCode(config.coding_rate)
       /\ trace[i].data[4] \in {0, 1}
  /\ \A b1, b2 \in Bandwidths : BwToSx126x(b1) = BwToSx126x(b2) => b1 = b2
  /\ \A c1, c2 \in CodingRates : CrToSx126x(c1) = CrToSx126x(c2) => c1 = c2
  /\ \A c \in CodingRates : c - 4 >= 0

\* init returned Ok for SF7, 250 kHz and coding rate 4/5, the lowest code
C27_Witness ==
  /\ InitReturned
  /\ result = "Ok"
  /\ config.spreading_factor = 7
  /\ config.bandwidth = 250
  /\ config.coding_rate = 5
  /\ \E i \in Opcode(139) : trace[i].data[3] = 1

------------------------------------------------------------------------------
\* the 6 bytes of init's packet-parameters command for the configuration:
\* preamble high and low byte, header type, placeholder length 0xFF, CRC,
\* IQ-invert
InitPacketBytes ==
  << (config.preamble_length \div 256) % 256, config.preamble_length % 256,
     IF config.explicit_header THEN 0 ELSE 1,
     255,
     IF config.crc_enabled THEN 1 ELSE 0,
     0 >>

\* init's packet-parameters command carries the 6 bytes of the configuration
InitPacketParams ==
  op = "init" => \A i \in Opcode(140) : trace[i].data = InitPacketBytes

\* C28 as stated: init's packet-parameters command carries [preamble high,
\* preamble low, header type, 0xFF, CRC, 0x00], and no packet-parameters
\* command of transmit has 6 bytes with the placeholder 0xFF as its length.
C28_PlaceholderOnlyByInit ==
  /\ InitPacketParams
  /\ op = "transmit" =>
       \A i \in Opcode(140) :
         ~(Len(trace[i].data) = 6 /\ trace[i].data[4] = 255)

\* C28, amended: init's packet-parameters command carries [preamble high,
\* preamble low, header type, 0xFF, CRC, 0x00]; transmit issues the 6-byte
\* packet-parameters command too, with the payload length mod 256 as its
\* fourth byte, so that byte is 0xFF exactly for a payload of 255 bytes
\* (mod 256).
C28_PacketParamsBytes ==
  /\ InitPacketParams
  /\ op = "transmit" =>
       \A i \in Opcode(140) :
         /\ Len(trace[i].data) = 6
         /\ trace[i].data[4] = Len(payload) % 256
         /\ trace[i].data[4] = 255 <=> Len(payload) % 256 = 255

\* a transmit of 255 bytes after an Ok init has sent the very bytes of init's
\* packet-parameters command
C28_Witness ==
  /\ op = "transmit"
  /\ lastInit # <<>>
  /\ Len(payload) = 255
  /\ \E i \in Opcode(140) : trace[i].ok /\ trace[i].data = InitPacketData

------------------------------------------------------------------------------
\* a read with a response buffer of at least one byte has returned Ok
ReadReturnedOk ==
  hpc = "ret" /\ hcall.kind = "read" /\ hstatus = "Ok" /\ hcall.n >= 1

\* C29: a read with a command of c >= 1 bytes and a response buffer of r >= 1
\* bytes shifts exactly c + r - 1 bytes: the command bytes, then r - 1 bytes
\* 0x00; response[0] is the byte received while the last command byte is
\* shifted and response[k] the byte received with the k-th 0x00.  Counting
\* wire positions from 0, get_status (c = 2, r = 1) takes position 1,
\* get_device_errors (c = 3, r = 2) positions 2 and 3, and a register read
\* (c = 4, r = 1) position 3.
C29_ReadPositions ==
  ReadReturnedOk =>
    LET c == Len(hcall.cmd)
        r == hcall.n
    IN /\ Len(wire) = c + r - 1
       /\ \A i \in 1..c : wire[i].sent = hcall.cmd[i]
       /\ \A i \in c + 1..c + r - 1 : wire[i].sent = 0
       /\ \A k \in 1..r : hresp[k] = wire[c + k - 1].rx
       /\ (c = 2 /\ r = 1) => hresp = <<wire[2].rx>>
       /\ (c = 3 /\ r = 2) => hresp = <<wire[3].rx, wire[4].rx>>
       /\ (c = 4 /\ r = 1) => hresp = <<wire[4].rx>>

\* a read shaped like get_device_errors has returned two bytes that differ
\* from each other, the first differing from the byte received before it
C29_Witness ==
  /\ ReadReturnedOk
  /\ Len(hcall.cmd) = 3
  /\ hcall.n = 2
  /\ wire[2].rx = 162
  /\ wire[3].rx = 92
  /\ wire[4].rx = 162
  /\ hresp = <<92, 162>>

------------------------------------------------------------------------------
\* the smallest n with n * d >= x, for x >= 0 and d > 0
CeilDiv(x, d) == (x + d - 1) \div d

\* the symbols of the payload part of a LoRa packet of len bytes under c:
\* 8 + ceil(max(8 len + 16 CRC - 4 SF + 8 + 20 H, 0) / (4 (SF - 2 LDRO))) (CR + 4)
\* with H = 1 for the explicit header and LDRO as init sets it for SF
PayloadSymbols(c, len) ==
  LET bits == 8 * len + (IF c.crc_enabled THEN 16 ELSE 0)
                - 4 * c.spreading_factor + 8
                + (IF c.explicit_header THEN 20 ELSE 0)
      per == 4 * (c.spreading_factor - 2 * Ldro(c.spreading_factor))
  IN 8 + CeilDiv(IF bits > 0 THEN bits ELSE 0, per) * c.coding_rate

\* the time on air in eighths of a microsecond: preamble + 4.25 + payload
\* symbols, each of 2^SF / BW seconds (bandwidth in kHz)
AirTimeEighthUs(c, len) ==
  LET quarters == 4 * (c.preamble_length + PayloadSymbols(c, len)) + 17
      symbolUs == (Pow2(c.spreading_factor) * 1000) \div c.bandwidth
  IN quarters * symbolUs * 2

\* the timeout of a set-TX command in eighths of a microsecond: ticks of
\* 15.625 us
TimeoutEighthUs(d) == (d[1] * 65536 + d[2] * 256 + d[3]) * 125

\* C30: the set-TX command of transmit carries the 3-byte big-endian timeout
\* 0x002710, 10000 ticks of 15.625 us, and for every payload of 1..64 bytes
\* under each predefined configuration (default, long_range, fast_mode,
\* low_power) this timeout is at least the time on air of the packet.
C30_TimeoutCoversAirTime ==
  \A i \in Opcode(131) :
    /\ trace[i].data = <<0, 39, 16>>
    /\ TimeoutEighthUs(trace[i].data) = 156250 * 8
    /\ (lastInit # <<>> /\ config \in Presets /\ Len(payload) \in 1..BUFFER_SIZE) =>
         TimeoutEighthUs(trace[i].data) >= AirTimeEighthUs(config, Len(payload))

------------------------------------------------------------------------------
\* the completion delays of the current transmit: delay events of transmit
\* itself, in milliseconds
CompletionDelays ==
  {i \in StepAt("transmit") : trace[i].k = "delay"}

\* C31: the completion delay of transmit is at least the set-TX timeout the
\* same transmit armed and at least the time on air of its payload under
\* CURRENT_CONFIG, so that the antenna lines are not switched off while the
\* chip can still be sending the packet.
C31_DelayCoversTransmission ==
  \A i \in CompletionDelays :
    /\ \A j \in Opcode(131) :
         trace[i].n * 8000 >= TimeoutEighthUs(trace[j].data)
    /\ trace[i].n * 8000 >= AirTimeEighthUs(CURRENT_CONFIG, Len(payload))

------------------------------------------------------------------------------
\* C32 as stated: whenever the busy-timeout warning of a wait has been logged,
\* the last poll of that wait read the busy line high; a wait that ended on a
\* poll that read low has not logged it.
C32_WarnedOnlyWhileBusy == warned => lastBusy = "high"

\* the step after the loop of wait_on_busy: the warning is logged exactly when
\* the loop body ran MAX_BUSY_WAIT_ITERATIONS times, that is when the loop
\* condition was evaluated once more than that, whatever the last poll read
WarningStep ==
  hpc = "check" =>
    /\ warned' <=> polls = MAX_BUSY_WAIT_ITERATIONS + 1
    /\ warned' <=> timeout = 0
    /\ lastBusy' = lastBusy

\* C32, amended: wait_on_busy logs the busy-timeout warning exactly when the
\* ceiling was exhausted, that is after MAX_BUSY_WAIT_ITERATIONS polls that
\* read high; the poll that ends the wait is one more, and it may read low: a
\* wait that ends on a low poll logs the warning when it is that poll.
C32_WarnedIffCeilingExhausted == [][WarningStep]_vars

\* a wait has logged the warning although its last poll read the line low
C32_Witness ==
  /\ warned
  /\ lastBusy = "low"
  /\ hpc \in {"select", "ret"}

------------------------------------------------------------------------------
(***************************************************************************)
(* lora.rs: LoraControl, the transport of the sx1268_rs Control trait over *)
(* the same bus and lines.  It is modelled on the variables of the         *)
(* transport layer: hpc is the position in the operation, hcall its        *)
(* arguments (cmd the opcode or header slice, data the slice written after *)
(* it, n the length of the slice read after it), lastBusy the level the    *)
(* chip holds the busy line at, nss the chip-select line, wire the bytes   *)
(* shifted, hstatus the Result and hresp the slice read.                   *)
(***************************************************************************)
LoraWrites == {"write_command", "write_register", "write_buffer"}
LoraReads == {"read_command", "read_register", "read_buffer", "get_status"}
LoraKinds == LoraWrites \cup LoraReads

\* the header slice of an operation: [opcode], [0x0D or 0x1D, address high,
\* address low], [WRITE_BUFFER or READ_BUFFER, offset], [0xC0]
LoraHeaders(kind) ==
  CASE kind = "write_command" -> {<<SET_STANDBY>>, <<SET_TX>>}
    [] kind = "read_command" -> {<<GET_DEVICE_ERRORS>>}
    [] kind = "write_register" ->
         {<<13, BE2(a)[1], BE2(a)[2]>> : a \in {TestAddr, SyncWordAddr}}
    [] kind = "read_register" ->
         {<<29, BE2(a)[1], BE2(a)[2]>> : a \in {TestAddr, SyncWordAddr}}
    [] kind = "write_buffer" -> {<<WRITE_BUFFER, o>> : o \in {0, 128}}
    [] kind = "read_buffer" -> {<<READ_BUFFER, o>> : o \in {0, 128}}
    [] kind = "get_status" -> {<<192>>}

\* the arguments of an operation; get_status reads one byte
LoraArgs(kind) ==
  {[kind |-> kind, cmd |-> h,
    data |-> IF kind \in LoraWrites THEN Pattern(d, 165) ELSE <<>>,
    n |-> IF kind \in LoraWrites THEN 0 ELSE IF kind = "get_status" THEN 1 ELSE d] :
     h \in LoraHeaders(kind), d \in 0..MaxDataLen}

\* the wire entries of one spi.write or spi.read of a slice: failAt = 0 when
\* the call gives Ok, else the place of the byte at which it gives Err
SliceEntries(bytes, rxs, failAt) ==
  [i \in 1..(IF failAt = 0 THEN Len(bytes) ELSE failAt) |->
     [sent |-> bytes[i], nss |-> nss, ok |-> i # failAt, rx |-> rxs[i]]]

InitLora ==
  /\ config = ConfigDefault
  /\ chip = [resetValue |-> 0, writable |-> TRUE]
  /\ faulty = TRUE
  /\ pinFaulty = FALSE
  /\ DriverNew
  /\ HalIdle
  /\ MainOff

\* a call of a bus operation; the chip holds the busy line low or high
L_Call ==
  /\ hpc = "idle"
  /\ \E k \in LoraKinds : \E a \in LoraArgs(k) :
       /\ hcall' = a
       /\ hresp' = [i \in 1..a.n |-> 0]
  /\ \E b \in {"low", "high"} : lastBusy' = b
  /\ hpc' = "poll"
  /\ wire' = <<>>
  /\ hstatus' = "none"
  /\ UNCHANGED <<envVars, mainVars, drvVars, pinVars, chipVars, timeout, polls,
                 warned>>

\* the chip ends what it was busy with and lets the busy line go low
L_ChipReady ==
  /\ hpc = "poll"
  /\ lastBusy = "high"
  /\ lastBusy' = "low"
  /\ UNCHANGED <<envVars, mainVars, drvVars, pinVars, chipVars, hpc, hcall, timeout,
                 polls, warned, wire, hstatus, hresp>>

\* while self.busy_pin.is_high() {}: the loop goes round, changing nothing,
\* for as long as the line is high
L_Poll ==
  /\ hpc = "poll"
  /\ hpc' = IF lastBusy = "high" THEN "poll" ELSE "select"
  /\ UNCHANGED <<envVars, mainVars, drvVars, pinVars, chipVars, hcall, timeout, polls,
                 lastBusy, warned, wire, hstatus, hresp>>

\* self.cs_pin.set_low()
L_Select ==
  /\ hpc = "select"
  /\ nss' = 0
  /\ hpc' = "cmd"
  /\ UNCHANGED <<envVars, mainVars, drvVars, nrst, txen, rxen, chipVars, hcall, timeout,
                 polls, lastBusy, warned, wire, hstatus, hresp>>

\* self.spi.deref_mut().write(&header).map_err(spi_error)?
L_Header ==
  /\ hpc = "cmd"
  /\ \E failAt \in 0..Len(hcall.cmd) :
       /\ wire' = wire \o SliceEntries(hcall.cmd, [i \in 1..Len(hcall.cmd) |-> 0],
                                      failAt)
       /\ hpc' = IF failAt = 0 THEN "data" ELSE "ret"
       /\ hstatus' = IF failAt = 0 THEN hstatus ELSE "Error"
  /\ UNCHANGED <<envVars, mainVars, drvVars, pinVars, chipVars, hcall, timeout, polls,
                 lastBusy, warned, hresp>>

\* the write of params or data, or the read of the response, with `?`; then
\* self.cs_pin.set_high() and Ok
L_Body ==
  /\ hpc = "data"
  /\ LET len == IF hcall.kind \in LoraWrites THEN Len(hcall.data) ELSE hcall.n
         out == IF hcall.kind \in LoraWrites THEN hcall.data
                ELSE [i \in 1..len |-> 0]
     IN \E failAt \in 0..len, rxs \in [1..len -> MisoBytes] :
          /\ wire' = wire \o SliceEntries(out, rxs, failAt)
          /\ IF failAt = 0
             THEN /\ nss' = 1
                  /\ hstatus' = "Ok"
                  /\ hresp' = IF hcall.kind \in LoraReads THEN rxs ELSE hresp
             ELSE /\ hstatus' = "Error"
                  /\ UNCHANGED <<nss, hresp>>
  /\ hpc' = "ret"
  /\ UNCHANGED <<envVars, mainVars, drvVars, nrst, txen, rxen, chipVars, hcall, timeout,
                 polls, lastBusy, warned>>

\* the caller takes the Result; the lines stay as the operation left them
L_Return ==
  /\ hpc = "ret"
  /\ hpc' = "idle"
  /\ hcall' = [kind |-> "none", cmd |-> <<>>, data |-> <<>>, n |-> 0]
  /\ lastBusy' = "low"
  /\ wire' = <<>>
  /\ hstatus' = "none"
  /\ hresp' = <<>>
  /\ UNCHANGED <<envVars, mainVars, drvVars, pinVars, chipVars, timeout, polls,
                 warned>>

\* the statements of an operation under way
L_Step ==
  \/ L_Poll
  \/ L_Select
  \/ L_Header
  \/ L_Body

NextLora ==
  \/ L_Call
  \/ L_ChipReady
  \/ L_Step
  \/ L_Return

SpecLora == InitLora /\ [][NextLora]_vars

\* one thread of control: an operation under way takes its next step; nothing
\* obliges the chip to let the busy line go
FairSpecLora == SpecLora /\ WF_vars(L_Step)

------------------------------------------------------------------------------
\* C33: every bus operation of LoraControl terminates, also when the chip
\* holds the busy line high for ever: an operation that waits for the busy
\* line returns.
C33_LoraTerminates == (hpc = "poll") ~> (hpc = "ret")

\* C34: every bus operation of LoraControl returns with chip-select high,
\* with Ok and also when one of its SPI transfers failed.
C34_LoraReleasesSelect == hpc = "ret" => nss = 1

------------------------------------------------------------------------------
\* C35 as stated: whenever the cached packet-parameter fields differ from the
\* constructor's (8, explicit, CRC on, IQ off), the chip has accepted a
\* packet-parameters command carrying exactly the cached values.
C35_CacheWasAccepted == cache # CacheNew => cache \in accepted

\* C35, amended: the cache holds the constructor's values or those of the
\* configuration of the latest init that reached its packet-parameters
\* command; init saves them whether or not that command is accepted, so after
\* a failed write the cache holds values the chip may never have accepted.
\* Once a packet-parameters write of init or of transmit has succeeded, the
\* chip has accepted the cached values.
C35_CacheSavedBeforeWrite ==
  /\ cache \in {CacheNew, CacheOf(config)}
  /\ (op = "init" /\ Opcode(140) # {}) => cache = CacheOf(config)
  /\ (\E i \in Opcode(140) : trace[i].ok) => cache \in accepted

\* an init has returned Err from its packet-parameters command, leaving cached
\* values that differ from the constructor's and that the chip never accepted
C35_Witness ==
  /\ InitReturned
  /\ result = "Err"
  /\ \E i \in Opcode(140) : ~trace[i].ok
  /\ cache # CacheNew
  /\ cache \notin accepted

------------------------------------------------------------------------------
\* C36: transmit does not guard the payload length: for a payload of L bytes,
\* also for L > 255, the write-buffer command carries all L bytes and the
\* packet-parameters command the length byte L mod 256; transmit returns Ok
\* when no bus transaction fails; the number of bytes written and the length
\* byte agree exactly for L <= 255.
C36_LengthNotGuarded ==
  op = "transmit" =>
    /\ \A i \in Opcode(14) : trace[i].data = payload
    /\ \A j \in Opcode(140) :
         /\ trace[j].data[4] = Len(payload) % 256
         /\ \A i \in Opcode(14) :
              trace[j].data[4] = Len(trace[i].data) <=> Len(payload) <= 255
    /\ (pc = "ret" /\ Failed = {}) => result = "Ok"

\* a transmit of 256 bytes has returned Ok: 256 bytes written, length byte 0
C36_Witness ==
  /\ TransmitReturned
  /\ result = "Ok"
  /\ Len(payload) = 256
  /\ \E i \in Opcode(14) : Len(trace[i].data) = 256
  /\ \E j \in Opcode(140) : trace[j].data[4] = 0

------------------------------------------------------------------------------
(***************************************************************************)
(* sx126x_integration.rs: E22Driver::transmit, the alternative driver over *)
(* the sx126x library.  It is modelled on the variables of the driver: pc  *)
(* is the statement transmit is at, txen and rxen the antenna lines it     *)
(* owns.  A call of the library gives Ok or Err; chip-select and the bytes *)
(* on the bus are the library's, the model keeps the call and its          *)
(* arguments.  The pins are generic OutputPins, whose writes can fail.     *)
(***************************************************************************)
\* the timeout E22Driver::transmit passes to set_tx
E22TxTimeout == 65535

InitE22 ==
  /\ config = ConfigDefault
  /\ chip = [resetValue |-> 0, writable |-> TRUE]
  /\ faulty = TRUE
  /\ pinFaulty = TRUE
  /\ DriverNew
  /\ HalIdle
  /\ MainOff

\* self.sx126x.<call>(..).map_err(|_| "..")? at statement `here`
E_LibCall(here, step, f, next) ==
  /\ pc = here
  /\ \E ok \in BusOutcomes :
       /\ trace' = Append(trace, BusEv(step, "write", f, 0, ok, <<>>))
       /\ pc' = IF ok THEN next ELSE "ret"
       /\ result' = IF ok THEN result ELSE "Err"
  /\ UNCHANGED <<envVars, mainVars, halVars, op, payload, lastInit, cache, locals,
                 pinVars, chipVars>>

\* one pin write of rf_switch_tx or rf_switch_off with map_err(..)?: a write
\* that fails leaves its line as it was and returns Err from transmit; after
\* the last write the operation gives Ok and transmit goes on to `next`
E_SwitchStep(here, step, ops, next) ==
  /\ pc = here
  /\ sub < Len(ops)
  /\ LET o == ops[sub + 1]
     IN \E ok \in PinOutcomes :
          /\ trace' = Append(trace, [OpEv(step, o) EXCEPT !.ok = ok])
          /\ txen' = IF ok /\ o[1] = "txen" THEN o[2] ELSE txen
          /\ rxen' = IF ok /\ o[1] = "rxen" THEN o[2] ELSE rxen
          /\ IF ~ok
             THEN sub' = 0 /\ pc' = "ret" /\ result' = "Err"
             ELSE IF sub + 1 = Len(ops)
                  THEN /\ sub' = 0
                       /\ pc' = next
                       /\ result' = IF next = "ret" THEN "Ok" ELSE result
                  ELSE /\ sub' = sub + 1
                       /\ UNCHANGED <<pc, result>>
  /\ UNCHANGED <<envVars, mainVars, halVars, op, payload, lastInit, cache, orig_value,
                 read_data, nss, nrst, chipVars>>

E_TransmitCall ==
  /\ pc = "idle"
  /\ \E p \in Payloads : payload' = p
  /\ pc' = "e_buffer"
  /\ op' = "transmit"
  /\ result' = "none"
  /\ trace' = <<>>
  /\ UNCHANGED <<envVars, mainVars, halVars, lastInit, cache, locals, pinVars, chipVars>>

E_WriteBuffer ==
  E_LibCall("e_buffer", "write_buffer", WriteBufferCmd(0, payload), "e_length")

\* set_lora_packet_params_payload_len(data.len() as u8)
E_SetPayloadLen ==
  E_LibCall("e_length", "set_lora_packet_params_payload_len",
            Frame(<<SET_PACKET_PARAMS>>, <<AsU8(Len(payload))>>), "e_rf_tx")

E_RfSwitchTx == E_SwitchStep("e_rf_tx", "rf_switch_tx", RfSwitchTxOps, "e_set_tx")

E_SetTx == E_LibCall("e_set_tx", "set_tx", SetTxCmd(E22TxTimeout), "e_rf_off")

E_RfSwitchOff == E_SwitchStep("e_rf_off", "rf_switch_off", RfSwitchOffOps, "ret")

NextE22 ==
  \/ E_TransmitCall
  \/ E_WriteBuffer
  \/ E_SetPayloadLen
  \/ E_RfSwitchTx
  \/ E_SetTx
  \/ E_RfSwitchOff
  \/ Return

SpecE22 == InitE22 /\ [][NextE22]_vars

------------------------------------------------------------------------------
\* C37: E22Driver::transmit returns with both antenna enable lines low on
\* every return path, also when set-TX or a pin write fails after TXEN was
\* driven high, and TXEN and RXEN are never high together.
C37_E22ReturnsLinesLow ==
  /\ ~(txen = 1 /\ rxen = 1)
  /\ TransmitReturned => txen = 0 /\ rxen = 0

=============================================================================
